---- MODULE Spec2Model ----
(***************************************************************************)
(* State-machine model of the NV ray-tracing sample in src/src/main.rs:    *)
(* the packed GeometryInstance record, the owning BufferResource /         *)
(* ImageResource wrappers, and RayTracingApp's initialize / release        *)
(* life cycle as driven by main.  Every device call the code makes is      *)
(* appended to the log `calls`, in program order, the way a recording      *)
(* device double would see it.                                             *)
(*                                                                         *)
(* Three specifications share the variables:                               *)
(*   SpecInst  GeometryInstance::new applied to bounded inputs             *)
(*   SpecRes   BufferResource / ImageResource values under new, clone,     *)
(*             and drop                                                    *)
(*   Spec      main: RayTracingApp::new, initialize, wait idle, release,   *)
(*             drop of the app                                             *)
(***************************************************************************)
EXTENDS Integers, Sequences, FiniteSets, TLC

VARIABLES
    gi_in,        \* arguments of GeometryInstance::new
    gi_out,       \* the GeometryInstance it returned, or NoInstance
    owners,       \* SpecRes: the live BufferResource / ImageResource values
    lastDrop,     \* SpecRes: the device calls of the most recent Drop::drop
    made,         \* SpecRes: how many values new and clone have made so far
    request,      \* SpecBuf: arguments of the latest BufferResource::new / store
    pc,           \* Spec: position of the host thread in main
    cfg,          \* Spec: build-time configuration [use_lib, use_hlsl]
    app,          \* Spec: the fields of RayTracingApp
    build,        \* Spec: locals of create_acceleration_structures while it runs
    stages,       \* Spec: the stages initialize has entered, in order
    releases,     \* Spec: number of calls of RayTracingApp::release so far
    gpuPending,   \* commands submitted to the queue and not yet executed
    gpuDone,      \* commands the device has executed, in order
    mem,          \* contents of host-written device memory, by memory handle
    calls,        \* the device calls made so far, in order
    nextHandle,   \* number of device handles created so far
    base,         \* the VulkanRenderer the resources refer to (Rc<VulkanRenderer>)
    fences,       \* SpecFrame: whether each in-flight fence is signaled
    inFlight,     \* SpecFrame: frames submitted whose fence is not yet signaled
    frame,        \* SpecFrame: locals of the running draw_frame
    drawn,        \* SpecFrame: number of draw_frame calls started so far
    swapchain     \* SpecFrame: the swapchain-dependent fields of VulkanRenderer

instVars == <<gi_in, gi_out>>
resVars  == <<owners, lastDrop, made, request>>
appVars  == <<pc, cfg, app, build, stages, releases, gpuPending, gpuDone>>
devVars  == <<mem, calls, nextHandle>>
frameVars == <<base, fences, inFlight, frame, drawn, swapchain>>
vars     == <<gi_in, gi_out, owners, lastDrop, made, request, pc, cfg, app, build, stages,
              releases, gpuPending, gpuDone, mem, calls, nextHandle,
              base, fences, inFlight, frame, drawn, swapchain>>

(***************************************************************************)
(* 32-bit words.  A u32 is a vector of 32 bits, bit 1 the least            *)
(* significant, so that &, | and << keep their width.                      *)
(***************************************************************************)
WordBits == 32
IdBits   == 24

Pow2(n) == 2 ^ n

\* Bit i (counted from 1) of the natural number n.
BitOf(n, i) == (n \div Pow2(i - 1)) % 2

\* The u32 whose top byte is hi8 and whose low 24 bits are lo24,
\* i.e. the number hi8 * 2^24 + lo24.
U32(hi8, lo24) ==
    [i \in 1..WordBits |-> IF i <= IdBits THEN BitOf(lo24, i)
                                          ELSE BitOf(hi8, i - IdBits)]

\* `mask as u32`: zero extension of a u8.
U32FromU8(b) == U32(0, b)

\* a & b, a | b on u32.
U32And(a, b) == [i \in 1..WordBits |-> IF a[i] = 1 /\ b[i] = 1 THEN 1 ELSE 0]
U32Or(a, b)  == [i \in 1..WordBits |-> IF a[i] = 1 \/ b[i] = 1 THEN 1 ELSE 0]

\* a << n on u32 (n < 32): the bits shifted past bit 32 are lost.
U32Shl(a, n) == [i \in 1..WordBits |-> IF i > n THEN a[i - n] ELSE 0]

\* The number held by bits lo..hi of a word.
RECURSIVE BitsVal(_, _, _)
BitsVal(w, lo, hi) ==
    IF lo > hi THEN 0 ELSE w[lo] + 2 * BitsVal(w, lo + 1, hi)

Lo24(w) == BitsVal(w, 1, IdBits)
Hi8(w)  == BitsVal(w, IdBits + 1, WordBits)

\* The literal 0x00ffffff.
Mask24 == U32(0, Pow2(IdBits) - 1)

(***************************************************************************)
(* GeometryInstance (main.rs 20-70).                                       *)
(***************************************************************************)
NoInstance == [none |-> TRUE]

set_id_unmasked(inst, id) ==
    [inst EXCEPT !.instance_id_and_mask = U32Or(@, id)]

set_id(inst, id) ==
    [inst EXCEPT !.instance_id_and_mask = U32Or(@, U32And(id, Mask24))]

set_mask_low(inst, mask) ==
    [inst EXCEPT !.instance_id_and_mask = U32Or(@, U32FromU8(mask))]

set_mask(inst, mask) ==
    [inst EXCEPT !.instance_id_and_mask = U32Or(@, U32Shl(U32FromU8(mask), IdBits))]

set_offset(inst, offset) ==
    [inst EXCEPT !.instance_offset_and_flags = U32Or(@, U32And(offset, Mask24))]

set_flags(inst, flags) ==
    [inst EXCEPT !.instance_offset_and_flags = U32Or(@, U32Shl(flags, IdBits))]

GeometryInstance_new(transform, id, mask, offset, flags, acceleration_handle) ==
    LET instance == [transform                 |-> transform,
                     instance_id_and_mask      |-> U32(0, 0),
                     instance_offset_and_flags |-> U32(0, 0),
                     acceleration_handle       |-> acceleration_handle]
    IN  set_flags(set_offset(set_mask(set_id(instance, id), mask), offset), flags)

(***************************************************************************)
(* The device.  A handle is a positive number, fresh at each create or     *)
(* allocate call; 0 is the null handle.  A call is logged with its         *)
(* operation, the handle it creates, destroys or acts on, and its other    *)
(* arguments.                                                              *)
(***************************************************************************)
NullHandle == 0

Call(op, h, a) == [op |-> op, h |-> h, a |-> a]

NoArgs == [none |-> TRUE]

\* The value of an Option that is None, and of a local that does not exist.
None == [kind |-> "none"]

Some(v) == [kind |-> "some", value |-> v]

\* A device call that returned an error instead of its result.
Failed(op) == Call("failed", NullHandle, [op |-> op])

\* Host-visible memory after the elements of `data` have been copied to the
\* start of allocation d: what lay beyond them stays.
MemWrite(m, d, data) ==
    LET old == IF d \in DOMAIN m THEN m[d] ELSE <<>>
    IN  (d :> (data \o SubSeq(old, Len(data) + 1, Len(old)))) @@ m

\* What the host reads from the first n elements of allocation d.
HostRead(m, d, n) == SubSeq(m[d], 1, n)

\* Memory contents after the allocations in `freed` are gone.
MemFree(m, freed) == [d \in (DOMAIN m) \ freed |-> m[d]]

(***************************************************************************)
(* The physical device behind `base`.  Its memory types are a list of      *)
(* property-flag sets in type-index order (index 0 first); a bitmask of    *)
(* memory types is the set of the indices whose bit is set.                *)
(***************************************************************************)
MAX_FRAMES_IN_FLIGHT == 2

RoundUp(n, a) == ((n + a - 1) \div a) * a

\* What get_buffer_memory_requirements answers for a buffer of `size` bytes.
get_buffer_memory_requirements(device, size) ==
    [size             |-> RoundUp(size, device.alignment),
     memory_type_bits |-> device.memory_type_bits]

\* utility::raytracing_aid::find_memorytype_index: the first memory type
\* whose bit is set in the requirements and which has every requested
\* property flag, or None.
find_memorytype_index(memory_req, memory_prop, flags) ==
    LET fit == {i \in 0..(Len(memory_prop) - 1) :
                   /\ i \in memory_req.memory_type_bits
                   /\ flags \subseteq memory_prop[i + 1]}
    IN  IF fit = {} THEN None
        ELSE Some(CHOOSE i \in fit : \A j \in fit : i <= j)

\* The fields of VulkanRenderer the model follows, as VulkanRenderer::new
\* leaves them (main.rs 519, 594, 596).
VulkanRenderer_new(device, memory_properties) ==
    [device                 |-> device,
     memory_properties      |-> memory_properties,
     current_frame          |-> 0,
     is_framebuffer_resized |-> FALSE]

\* A device with a device-local type, a host-visible coherent type and a
\* type that is both, every one allowed for every buffer.
ReferenceMemoryTypes ==
    << {"DEVICE_LOCAL"}, {"HOST_VISIBLE", "HOST_COHERENT"},
       {"DEVICE_LOCAL", "HOST_VISIBLE", "HOST_COHERENT"} >>

ReferenceDevice == [memory_type_bits |-> {0, 1, 2}, alignment |-> 1]

(***************************************************************************)
(* BufferResource (main.rs 182-269).                                       *)
(***************************************************************************)
\* BufferResource::new with n handles in use: the value and its calls.
\* BufferResource::new taking memory type 0 whatever the requirements are.
BufferResource_new_first_type(n, size, usage, memory_properties) ==
    LET buffer == n + 1
        memory == n + 2
        memory_req == get_buffer_memory_requirements(base.device, size)
    IN  [ok    |-> TRUE,
         res   |-> [kind |-> "buffer", buffer |-> buffer, memory |-> memory,
                    size |-> size],
         calls |-> << Call("create_buffer", buffer,
                           [size |-> size, usage |-> usage]),
                      Call("get_buffer_memory_requirements", buffer,
                           [result |-> memory_req]),
                      Call("allocate_memory", memory,
                           [allocation_size   |-> memory_req.size,
                            memory_type_index |-> 0,
                            flags             |-> memory_properties]),
                      Call("bind_buffer_memory", buffer,
                           [memory |-> memory, offset |-> 0]) >>,
         used  |-> 2]

\* When find_memorytype_index finds no type its unwrap panics: the buffer
\* exists, no memory was allocated and no BufferResource value is returned
\* (ok is FALSE).
BufferResource_new(n, size, usage, memory_properties) ==
    LET buffer == n + 1
        memory == n + 2
        memory_req == get_buffer_memory_requirements(base.device, size)
        memory_index == find_memorytype_index(memory_req, base.memory_properties,
                                              memory_properties)
        queried == << Call("create_buffer", buffer,
                           [size |-> size, usage |-> usage]),
                      Call("get_buffer_memory_requirements", buffer,
                           [result |-> memory_req]) >>
    IN  IF memory_index = None
        THEN [ok |-> FALSE, res |-> None, calls |-> queried, used |-> 1]
        ELSE [ok    |-> TRUE,
              res   |-> [kind |-> "buffer", buffer |-> buffer, memory |-> memory,
                         size |-> size],
              calls |-> queried \o
                        << Call("allocate_memory", memory,
                                [allocation_size   |-> memory_req.size,
                                 memory_type_index |-> memory_index.value,
                                 flags             |-> memory_properties]),
                           Call("bind_buffer_memory", buffer,
                                [memory |-> memory, offset |-> 0]) >>,
              used  |-> 2]

\* BufferResource::store: map, copy, unmap.
BufferResource_store_mapped(res, elemSize, data) ==
    << Call("map_memory", res.memory,
            [offset |-> 0, size |-> elemSize * Len(data)]) >>

BufferResource_store(res, elemSize, data) ==
    << Call("map_memory", res.memory,
            [offset |-> 0, size |-> elemSize * Len(data)]),
       Call("unmap_memory", res.memory, NoArgs) >>

\* Drop for BufferResource.
BufferResource_drop(res) ==
    << Call("destroy_buffer", res.buffer, NoArgs),
       Call("free_memory", res.memory, NoArgs) >>

(***************************************************************************)
(* ImageResource (main.rs 72-180).                                         *)
(***************************************************************************)
ImageResource_new ==
    [kind |-> "image", image |-> NullHandle, memory |-> NullHandle,
     view |-> NullHandle, sampler |-> NullHandle]

\* create_image with n handles in use.
ImageResource_create_image(res, n, usage, memory_flags) ==
    LET image  == n + 1
        memory == n + 2
    IN  [res   |-> [res EXCEPT !.image = image, !.memory = memory],
         calls |-> << Call("create_image", image, [usage |-> usage]),
                      Call("get_image_memory_requirements", image, NoArgs),
                      Call("allocate_memory", memory, [flags |-> memory_flags]),
                      Call("bind_image_memory", image,
                           [memory |-> memory, offset |-> 0]) >>,
         used  |-> 2]

\* create_view with n handles in use.
ImageResource_create_view(res, n) ==
    LET view == n + 1
    IN  [res   |-> [res EXCEPT !.view = view],
         calls |-> << Call("create_image_view", view, [image |-> res.image]) >>,
         used  |-> 1]

\* Drop for ImageResource.
ImageResource_drop(res) ==
    << Call("destroy_image_view", res.view, NoArgs),
       Call("free_memory", res.memory, NoArgs),
       Call("destroy_image", res.image, NoArgs),
       Call("destroy_sampler", res.sampler, NoArgs) >>

\* The Drop of either resource kind.
Resource_drop(res) ==
    IF res.kind = "buffer" THEN BufferResource_drop(res)
                           ELSE ImageResource_drop(res)

\* The non-null device handles a resource value holds.
HandlesOf(res) ==
    (IF res.kind = "buffer" THEN {res.buffer, res.memory}
     ELSE {res.image, res.memory, res.view, res.sampler}) \ {NullHandle}

DestroyOps ==
    {"destroy_buffer", "destroy_image", "destroy_image_view", "destroy_sampler",
     "free_memory", "destroy_acceleration_structure", "destroy_descriptor_pool",
     "destroy_pipeline", "destroy_pipeline_layout",
     "destroy_descriptor_set_layout", "destroy_shader_module",
     "free_command_buffers"}

\* How many destroy / free calls the log holds for handle h.
DestroyCount(log, h) ==
    Cardinality({i \in 1..Len(log) : log[i].op \in DestroyOps /\ log[i].h = h})

\* The memory allocations freed by a sequence of calls.
FreedBy(cs) == {cs[i].h : i \in {j \in 1..Len(cs) : cs[j].op = "free_memory"}}

(***************************************************************************)
(* The three hard-coded transforms of create_acceleration_structures       *)
(* (main.rs 1197-1204).  An f32 is held as the integer number of tenths.   *)
(***************************************************************************)
transform_0 == <<10, 0, 0, -15, 0, 10, 0, 11, 0, 0, 10, 0>>
transform_1 == <<10, 0, 0, 0, 0, 10, 0, -11, 0, 0, 10, 0>>
transform_2 == <<10, 0, 0, 15, 0, 10, 0, 11, 0, 0, 10, 0>>

\* vk::GeometryInstanceFlagsNV::TRIANGLE_CULL_DISABLE_NV, raw value.
TRIANGLE_CULL_DISABLE_NV == 1

(***************************************************************************)
(* SpecInst: GeometryInstance::new on bounded inputs.                      *)
(***************************************************************************)
MaxTopByte     == 2    \* top bytes 0..MaxTopByte and 255 of the u32 inputs
MaxAccelHandle == 2    \* opaque bottom-level handles 1..MaxAccelHandle

TopBytes   == (0..MaxTopByte) \cup {255}
MaskVals   == {0, 170, 255}
FlagVals   == {0, TRIANGLE_CULL_DISABLE_NV, 256, 511}

InstInputs ==
    [transform : {transform_0, transform_2},
     idHi : TopBytes, idLo : {0, 11259375, Pow2(IdBits) - 1},
     mask : MaskVals,
     offHi : {0, 255}, offLo : {1, Pow2(IdBits) - 1},
     flags : FlagVals,
     handle : 1..MaxAccelHandle]

AppIdle ==
    /\ pc = "off" /\ cfg = [use_lib |-> FALSE, use_hlsl |-> TRUE]
    /\ app = [none |-> TRUE] /\ build = [none |-> TRUE]
    /\ stages = <<>> /\ releases = 0
    /\ gpuPending = <<>> /\ gpuDone = <<>>

DevIdle == mem = <<>> /\ calls = <<>> /\ nextHandle = 0

ResIdle ==
    /\ owners = <<>> /\ lastDrop = <<>>
    /\ made = [new |-> 0, clone |-> 0, store |-> 0]
    /\ request = None

\* VulkanRenderer::new has returned for the reference device; no frame has
\* been drawn.
NoFrames ==
    /\ fences = [i \in 0..(MAX_FRAMES_IN_FLIGHT - 1) |-> TRUE]
    /\ inFlight = {}
    /\ frame = None
    /\ drawn = 0
    /\ swapchain = None

FrameIdle ==
    /\ base = VulkanRenderer_new(ReferenceDevice, ReferenceMemoryTypes)
    /\ NoFrames

InstIdle == gi_in = NoInstance /\ gi_out = NoInstance

InitInst ==
    /\ gi_in \in InstInputs
    /\ gi_out = NoInstance
    /\ ResIdle
    /\ AppIdle /\ DevIdle /\ FrameIdle

\* One call of GeometryInstance::new (main.rs 30-49).
NewInstance ==
    /\ gi_out = NoInstance
    /\ gi_out' = GeometryInstance_new(gi_in.transform,
                                      U32(gi_in.idHi, gi_in.idLo),
                                      gi_in.mask,
                                      U32(gi_in.offHi, gi_in.offLo),
                                      U32(0, gi_in.flags),
                                      gi_in.handle)
    /\ UNCHANGED <<gi_in, resVars, appVars, devVars, frameVars>>

NextInst == NewInstance

SpecInst == InitInst /\ [][NextInst]_vars

(***************************************************************************)
(* C8: for every 32-bit id and offset GeometryInstance::new keeps only the *)
(* low 24 bits: the id field of instance_id_and_mask is id mod 2^24 and    *)
(* the offset field of instance_offset_and_flags is offset mod 2^24, two   *)
(* ids (offsets) that agree in their low 24 bits encode identically, and   *)
(* every input yields an instance (none is rejected).                      *)
(***************************************************************************)
EncodeWith(idHi, offHi) ==
    GeometryInstance_new(gi_in.transform, U32(idHi, gi_in.idLo), gi_in.mask,
                         U32(offHi, gi_in.offLo), U32(0, gi_in.flags),
                         gi_in.handle)

C8_Low24BitsKept ==
    /\ gi_out # NoInstance =>
        /\ Lo24(gi_out.instance_id_and_mask) = gi_in.idLo
        /\ Lo24(gi_out.instance_offset_and_flags) = gi_in.offLo
        /\ \A h \in TopBytes :
              /\ EncodeWith(h, gi_in.offHi).instance_id_and_mask
                    = gi_out.instance_id_and_mask
              /\ EncodeWith(gi_in.idHi, h).instance_offset_and_flags
                    = gi_out.instance_offset_and_flags
    /\ gi_out = NoInstance => ENABLED NewInstance

\* An id and an offset above 2^24 - 1 have been encoded.
C8_Witness ==
    /\ gi_out # NoInstance
    /\ gi_in.idHi = 1 /\ gi_in.idLo = Pow2(IdBits) - 1
    /\ gi_in.offHi = 255

(***************************************************************************)
(* C9: instance_id_and_mask = (id mod 2^24) + mask * 2^24 and              *)
(* instance_offset_and_flags = (offset mod 2^24) + (flags mod 2^8) * 2^24, *)
(* stated on the two fields of each word (low 24 bits, top byte); the      *)
(* transform and the acceleration handle are stored unchanged.             *)
(***************************************************************************)
C9_PackedWords ==
    gi_out # NoInstance =>
        /\ Lo24(gi_out.instance_id_and_mask) = gi_in.idLo
        /\ Hi8(gi_out.instance_id_and_mask) = gi_in.mask
        /\ Lo24(gi_out.instance_offset_and_flags) = gi_in.offLo
        /\ Hi8(gi_out.instance_offset_and_flags) = gi_in.flags % Pow2(WordBits - IdBits)
        /\ gi_out.transform = gi_in.transform
        /\ gi_out.acceleration_handle = gi_in.handle

\* An id with bits above bit 24, a non-trivial mask and flags above 2^8 - 1.
C9_Witness ==
    /\ gi_out # NoInstance
    /\ gi_in.idHi = 255 /\ gi_in.mask = 170
    /\ gi_in.offHi = 255 /\ gi_in.flags = 511

(***************************************************************************)
(* SpecRes: BufferResource and ImageResource values under the operations   *)
(* their types offer: new, create_image + create_view, clone (both derive  *)
(* Clone) and drop.  owners holds the live values.                         *)
(***************************************************************************)
MaxNew    == 2    \* resources constructed
MaxClones == 2    \* clone calls

BufSizes == {6, 36}

InitRes ==
    /\ InstIdle /\ ResIdle /\ AppIdle /\ DevIdle /\ FrameIdle

RemoveAt(seq, i) == SubSeq(seq, 1, i - 1) \o SubSeq(seq, i + 1, Len(seq))

\* BufferResource::new (main.rs 191-232).
ResNewBuffer ==
    /\ made.new < MaxNew
    /\ made' = [made EXCEPT !.new = @ + 1]
    /\ \E size \in BufSizes :
        LET r == BufferResource_new(nextHandle, size, "VERTEX_BUFFER",
                                    {"HOST_VISIBLE", "HOST_COHERENT"})
        IN  /\ owners' = Append(owners, r.res)
            /\ calls' = calls \o r.calls
            /\ nextHandle' = nextHandle + r.used
    /\ UNCHANGED <<instVars, frameVars, request, lastDrop, appVars, mem>>

\* ImageResource::new (main.rs 82-90): every handle null, no device call.
ResNewImage ==
    /\ made.new < MaxNew
    /\ made' = [made EXCEPT !.new = @ + 1]
    /\ owners' = Append(owners, ImageResource_new)
    /\ UNCHANGED <<instVars, frameVars, request, lastDrop, appVars, devVars>>

\* create_image then create_view (main.rs 92-168), as create_offscreen_target
\* calls them on a fresh ImageResource.
ResCreateImage(i) ==
    /\ owners[i].kind = "image" /\ owners[i].image = NullHandle
    /\ LET a == ImageResource_create_image(owners[i], nextHandle, "STORAGE",
                                           {"DEVICE_LOCAL"})
           b == ImageResource_create_view(a.res, nextHandle + a.used)
       IN  /\ owners' = [owners EXCEPT ![i] = b.res]
           /\ calls' = calls \o a.calls \o b.calls
           /\ nextHandle' = nextHandle + a.used + b.used
    /\ UNCHANGED <<instVars, frameVars, request, lastDrop, made, appVars, mem>>

\* #[derive(Clone)] (main.rs 72, 182): the handles are copied.
ResClone(i) ==
    /\ made.clone < MaxClones
    /\ made' = [made EXCEPT !.clone = @ + 1]
    /\ owners' = Append(owners, owners[i])
    /\ UNCHANGED <<instVars, frameVars, request, lastDrop, appVars, devVars>>

\* Drop::drop (main.rs 171-180, 262-269) of owners[i].
ResDrop(i) ==
    /\ lastDrop' = Resource_drop(owners[i])
    /\ calls' = calls \o lastDrop'
    /\ mem' = MemFree(mem, FreedBy(lastDrop'))
    /\ owners' = RemoveAt(owners, i)
    /\ UNCHANGED <<instVars, frameVars, request, made, appVars, nextHandle>>

NextRes ==
    \/ ResNewBuffer
    \/ ResNewImage
    \/ \E i \in 1..Len(owners) : ResCreateImage(i)
    \/ \E i \in 1..Len(owners) : ResClone(i)
    \/ \E i \in 1..Len(owners) : ResDrop(i)

SpecRes == InitRes /\ [][NextRes]_vars

\* How many live values hold handle h.
OwnerCount(h) ==
    Cardinality({i \in 1..Len(owners) : h \in HandlesOf(owners[i])})

(***************************************************************************)
(* C4: every device buffer, image, image view and memory allocation        *)
(* created through BufferResource or ImageResource has exactly one owner   *)
(* while it lives and is destroyed exactly once, when that owner goes,     *)
(* whatever sequence of new, clone and drop the owning values see.         *)
(***************************************************************************)
C4_OneOwnerDestroyedOnce ==
    \A h \in 1..nextHandle :
        /\ OwnerCount(h) <= 1
        /\ DestroyCount(calls, h) <= 1
        /\ OwnerCount(h) = 1 => DestroyCount(calls, h) = 0
        /\ OwnerCount(h) = 0 => DestroyCount(calls, h) = 1

(***************************************************************************)
(* C5: when a BufferResource or an ImageResource is dropped its device     *)
(* calls come in the order view and sampler, then memory, then the buffer  *)
(* or image handle.                                                        *)
(***************************************************************************)
ReleaseRank(c) ==
    CASE c.op \in {"destroy_image_view", "destroy_sampler"} -> 1
      [] c.op = "free_memory"                               -> 2
      [] c.op \in {"destroy_buffer", "destroy_image"}       -> 3

C5_ViewMemoryHandleOrder ==
    \A i, j \in 1..Len(lastDrop) :
        i < j => ReleaseRank(lastDrop[i]) <= ReleaseRank(lastDrop[j])

(***************************************************************************)
(* Spec: main (main.rs 2106-2149).  RayTracingApp::new, initialize,        *)
(* wait_device_idle, release, and the drop of the app at the end of the    *)
(* block.  release is a method a caller may call again; main calls it      *)
(* once, the model lets it be called up to MaxReleaseCalls times.          *)
(***************************************************************************)
MaxReleaseCalls == 2    \* calls of release before the app is dropped
MaxScratch      == 3    \* build-scratch requirements 1..MaxScratch (units)
MaxSetsReturned == 1    \* descriptor sets an allocation returns, 0..MaxSetsReturned

\* Shader-group handle sizes a device may report.
HandleSizes == {16, 32}

\* RayTracingApp::new (main.rs 941-969).
RayTracingApp_new(shader_group_handle_size) ==
    [properties            |-> [shader_group_handle_size |-> shader_group_handle_size],
     top_as_memory         |-> NullHandle,
     top_as                |-> NullHandle,
     bottom_as_memory      |-> NullHandle,
     bottom_as             |-> NullHandle,
     descriptor_set_layout |-> NullHandle,
     pipeline_layout       |-> NullHandle,
     pipeline              |-> NullHandle,
     shader_binding_table  |-> None,
     color0_buffer         |-> None,
     color1_buffer         |-> None,
     color2_buffer         |-> None,
     descriptor_pool       |-> NullHandle,
     descriptor_set        |-> NullHandle,
     offscreen_target      |-> ImageResource_new,
     rgen_shader_module    |-> NullHandle,
     chit_shader_module    |-> NullHandle,
     miss_shader_module    |-> NullHandle,
     lib_shader_module     |-> NullHandle]

Init ==
    /\ InstIdle /\ ResIdle /\ DevIdle /\ FrameIdle
    /\ pc = "initialize"
    /\ cfg \in [use_lib : BOOLEAN, use_hlsl : BOOLEAN]
    /\ \E hs \in HandleSizes : app = RayTracingApp_new(hs)
    /\ build = None
    /\ stages = <<>>
    /\ releases = 0
    /\ gpuPending = <<>>
    /\ gpuDone = <<>>

\* RayTracingApp::initialize (main.rs 971-978): the stages in call order.
initialize_sbt_first ==
    << "create_offscreen_target", "create_acceleration_structures",
       "create_bindless_uniform_buffers", "create_shader_binding_table",
       "create_pipeline", "create_descriptor_set" >>

initialize ==
    << "create_offscreen_target", "create_acceleration_structures",
       "create_bindless_uniform_buffers", "create_pipeline",
       "create_shader_binding_table", "create_descriptor_set" >>

\* initialize is about to call stage s.
AtStage(s) ==
    /\ pc = "initialize"
    /\ Len(stages) < Len(initialize)
    /\ initialize[Len(stages) + 1] = s

\* Where the host is once the stages in st have returned.
AfterStage(st) ==
    IF Len(st) = Len(initialize) THEN "initialized" ELSE "initialize"

\* create_offscreen_target (main.rs 980-1005).
CreateOffscreenTarget ==
    /\ AtStage("create_offscreen_target")
    /\ LET a == ImageResource_create_image(app.offscreen_target, nextHandle,
                                           "STORAGE|TRANSFER_SRC", {"DEVICE_LOCAL"})
           b == ImageResource_create_view(a.res, nextHandle + a.used)
       IN  /\ app' = [app EXCEPT !.offscreen_target = b.res]
           /\ calls' = calls \o a.calls \o b.calls
           /\ nextHandle' = nextHandle + a.used + b.used
    /\ stages' = Append(stages, "create_offscreen_target")
    /\ pc' = AfterStage(stages')
    /\ UNCHANGED <<instVars, frameVars, resVars, cfg, build, releases, gpuPending, gpuDone, mem>>

(***************************************************************************)
(* create_acceleration_structures (main.rs 1007-1634).                     *)
(***************************************************************************)
\* The triangle of main.rs 1011-1021 (tenths) and its indices (1035).
vertices == << <<-5, -5, 0>>, <<0, 5, 0>>, <<5, -5, 0>> >>
indices  == <<0, 1, 2>>

\* size_of of VertexRt ([f32; 3]), u16 and the repr(C) GeometryInstance.
SizeOfVertexRt         == 3 * 4
SizeOfU16              == 2
SizeOfGeometryInstance == 12 * 4 + 4 + 4 + 8

\* The instance list with the third record repeating the second, which the
\* instance-buffer property must tell apart from the list the code builds.
InstancesRepeated(bottom_as_handle) ==
    << GeometryInstance_new(transform_0, U32(0, 0), 255, U32(0, 0),
                            U32(0, TRIANGLE_CULL_DISABLE_NV), bottom_as_handle),
       GeometryInstance_new(transform_1, U32(0, 1), 255, U32(0, 0),
                            U32(0, TRIANGLE_CULL_DISABLE_NV), bottom_as_handle),
       GeometryInstance_new(transform_1, U32(0, 1), 255, U32(0, 0),
                            U32(0, TRIANGLE_CULL_DISABLE_NV), bottom_as_handle) >>

\* The instances of main.rs 1206-1231 for bottom-level handle H.
Instances(bottom_as_handle) ==
    << GeometryInstance_new(transform_0, U32(0, 0), 255, U32(0, 0),
                            U32(0, TRIANGLE_CULL_DISABLE_NV), bottom_as_handle),
       GeometryInstance_new(transform_1, U32(0, 1), 255, U32(0, 0),
                            U32(0, TRIANGLE_CULL_DISABLE_NV), bottom_as_handle),
       GeometryInstance_new(transform_2, U32(0, 2), 255, U32(0, 0),
                            U32(0, TRIANGLE_CULL_DISABLE_NV), bottom_as_handle) >>

\* std::cmp::max.
Max_first(a, b) == a

Max(a, b) == IF a >= b THEN a ELSE b

\* Creation of one acceleration structure with its memory
\* (main.rs 1071-1122 and 1244-1294), n handles in use.
CreateAccel_unbound(n, ty, geometry_count, instance_count) ==
    LET as     == n + 1
        memory == n + 2
    IN  [as |-> as, memory |-> memory, used |-> 2,
         calls |-> << Call("create_acceleration_structure", as,
                           [ty |-> ty, geometry_count |-> geometry_count,
                            instance_count |-> instance_count]),
                      Call("get_acceleration_structure_memory_requirements", as,
                           [ty |-> "OBJECT"]),
                      Call("allocate_memory", memory, [flags |-> {"DEVICE_LOCAL"}]) >>]

CreateAccel(n, ty, geometry_count, instance_count) ==
    LET as     == n + 1
        memory == n + 2
    IN  [as |-> as, memory |-> memory, used |-> 2,
         calls |-> << Call("create_acceleration_structure", as,
                           [ty |-> ty, geometry_count |-> geometry_count,
                            instance_count |-> instance_count]),
                      Call("get_acceleration_structure_memory_requirements", as,
                           [ty |-> "OBJECT"]),
                      Call("allocate_memory", memory, [flags |-> {"DEVICE_LOCAL"}]),
                      Call("bind_acceleration_structure_memory", as,
                           [memory |-> memory]) >>]

\* The memory barrier of main.rs 1409-1418 with the stages of 1435-1443.
BuildBarrierArgs ==
    [src_stage  |-> "ACCELERATION_STRUCTURE_BUILD_NV",
     dst_stage  |-> "ACCELERATION_STRUCTURE_BUILD_NV",
     src_access |-> {"ACCELERATION_STRUCTURE_WRITE_NV", "ACCELERATION_STRUCTURE_READ_NV"},
     dst_access |-> {"ACCELERATION_STRUCTURE_WRITE_NV", "ACCELERATION_STRUCTURE_READ_NV"}]

\* The commands recorded in the build command buffer (main.rs 1420-1468).
BuildCommandsTopFirst(cb, bottom_as, top_as, instance_count, instance_buffer, scratch) ==
    << Call("cmd_build_acceleration_structure", cb,
            [ty |-> "TOP_LEVEL", geometry_count |-> 0,
             instance_count |-> instance_count,
             instance_data |-> instance_buffer, instance_offset |-> 0,
             dst |-> top_as, scratch |-> scratch, scratch_offset |-> 0]),
       Call("cmd_pipeline_barrier", cb, BuildBarrierArgs),
       Call("cmd_build_acceleration_structure", cb,
            [ty |-> "BOTTOM_LEVEL", geometry_count |-> 1, instance_count |-> 0,
             instance_data |-> NullHandle, instance_offset |-> 0,
             dst |-> bottom_as, scratch |-> scratch, scratch_offset |-> 0]),
       Call("cmd_pipeline_barrier", cb, BuildBarrierArgs) >>

BuildCommands(cb, bottom_as, top_as, instance_count, instance_buffer, scratch) ==
    << Call("cmd_build_acceleration_structure", cb,
            [ty |-> "BOTTOM_LEVEL", geometry_count |-> 1, instance_count |-> 0,
             instance_data |-> NullHandle, instance_offset |-> 0,
             dst |-> bottom_as, scratch |-> scratch, scratch_offset |-> 0]),
       Call("cmd_pipeline_barrier", cb, BuildBarrierArgs),
       Call("cmd_build_acceleration_structure", cb,
            [ty |-> "TOP_LEVEL", geometry_count |-> 0,
             instance_count |-> instance_count,
             instance_data |-> instance_buffer, instance_offset |-> 0,
             dst |-> top_as, scratch |-> scratch, scratch_offset |-> 0]),
       Call("cmd_pipeline_barrier", cb, BuildBarrierArgs) >>

\* The device calls of create_acceleration_structures whose Result the code
\* unwraps (main.rs 199, 222, 228, 244; 1082, 1121, 1127; 1395, 1401, 1472,
\* 1477, 1486).
FallibleOps ==
    {"create_buffer", "allocate_memory", "bind_buffer_memory", "map_memory",
     "create_acceleration_structure", "bind_acceleration_structure_memory",
     "get_acceleration_structure_handle", "allocate_command_buffers",
     "begin_command_buffer", "end_command_buffer", "queue_submit",
     "queue_wait_idle"}

\* create_acceleration_structures up to and including queue_submit
\* (main.rs 1007-1484) with n handles in use, when every call succeeds.  The
\* device reports the bottom-level handle and the two build-scratch
\* requirements.  locals lists the owning locals in declaration order with
\* the number of calls after which each exists; writes lists the host
\* writes with the position of the map_memory each follows.
create_acceleration_structures(n, bottom_as_handle, bottom_as_size, top_as_size) ==
    LET vertex_buffer == BufferResource_new(n,
                             SizeOfVertexRt * Len(vertices), "VERTEX_BUFFER",
                             {"HOST_VISIBLE", "HOST_COHERENT"})
        n1 == n + vertex_buffer.used
        index_buffer == BufferResource_new(n1,
                             SizeOfU16 * Len(indices), "INDEX_BUFFER",
                             {"HOST_VISIBLE", "HOST_COHERENT"})
        n2 == n1 + index_buffer.used
        bottom == CreateAccel(n2, "BOTTOM_LEVEL", 1, 0)
        n3 == n2 + bottom.used
        instances == Instances(bottom_as_handle)
        instance_buffer == BufferResource_new(n3,
                             SizeOfGeometryInstance * Len(instances),
                             "RAY_TRACING_NV", {"HOST_VISIBLE", "HOST_COHERENT"})
        n4 == n3 + instance_buffer.used
        top == CreateAccel(n4, "TOP_LEVEL", 0, Len(instances))
        n5 == n4 + top.used
        scratch_buffer_size == Max(bottom_as_size, top_as_size)
        scratch_buffer == BufferResource_new(n5, scratch_buffer_size,
                             "RAY_TRACING_NV", {"DEVICE_LOCAL"})
        n6 == n5 + scratch_buffer.used
        build_command_buffer == n6 + 1
        commands == BuildCommands(build_command_buffer, bottom.as, top.as,
                                  Len(instances), instance_buffer.res.buffer,
                                  scratch_buffer.res.buffer)
        c1 == vertex_buffer.calls
        c2 == c1 \o BufferResource_store(vertex_buffer.res, SizeOfVertexRt, vertices)
        c3 == c2 \o index_buffer.calls
        c4 == c3 \o BufferResource_store(index_buffer.res, SizeOfU16, indices)
        c5 == c4 \o bottom.calls
                 \o << Call("get_acceleration_structure_handle", bottom.as,
                            [result |-> bottom_as_handle]) >>
        c6 == c5 \o instance_buffer.calls
        c7 == c6 \o BufferResource_store(instance_buffer.res,
                                         SizeOfGeometryInstance, instances)
        c8 == c7 \o top.calls
                 \o << Call("get_acceleration_structure_memory_requirements",
                            bottom.as, [ty |-> "BUILD_SCRATCH",
                                        result |-> bottom_as_size]),
                       Call("get_acceleration_structure_memory_requirements",
                            top.as, [ty |-> "BUILD_SCRATCH",
                                     result |-> top_as_size]) >>
        c9 == c8 \o scratch_buffer.calls
    IN  [calls |-> c9
             \o << Call("allocate_command_buffers", build_command_buffer,
                        [count |-> 1]),
                   Call("begin_command_buffer", build_command_buffer,
                        [flags |-> "ONE_TIME_SUBMIT"]) >>
             \o commands
             \o << Call("end_command_buffer", build_command_buffer, NoArgs),
                   Call("queue_submit", build_command_buffer,
                        [queue |-> "present_queue", fence |-> NullHandle]) >>,
         commands |-> commands,
         bottom |-> bottom,
         top |-> top,
         vertex_buffer   |-> vertex_buffer.res,
         index_buffer    |-> index_buffer.res,
         instance_buffer |-> instance_buffer.res,
         scratch_buffer  |-> scratch_buffer.res,
         build_command_buffer |-> build_command_buffer,
         locals |-> << [res |-> vertex_buffer.res,   at |-> Len(c1)],
                       [res |-> index_buffer.res,    at |-> Len(c3)],
                       [res |-> instance_buffer.res, at |-> Len(c6)],
                       [res |-> scratch_buffer.res,  at |-> Len(c9)] >>,
         writes |-> << [memory |-> vertex_buffer.res.memory, data |-> vertices,
                        at |-> Len(c1) + 1],
                       [memory |-> index_buffer.res.memory, data |-> indices,
                        at |-> Len(c3) + 1],
                       [memory |-> instance_buffer.res.memory, data |-> instances,
                        at |-> Len(c6) + 1] >>]

\* The host writes ws applied to m in order.
RECURSIVE MemWriteAll(_, _)
MemWriteAll(m, ws) ==
    IF ws = <<>> THEN m
    ELSE MemWriteAll(MemWrite(m, Head(ws).memory, Head(ws).data), Tail(ws))

\* create_acceleration_structures up to and including queue_submit, every
\* call succeeding.
BuildAndSubmit ==
    /\ AtStage("create_acceleration_structures")
    /\ \E bottom_as_handle \in 1..MaxAccelHandle,
          bottom_as_size \in 1..MaxScratch, top_as_size \in 1..MaxScratch :
        \E b \in {create_acceleration_structures(nextHandle, bottom_as_handle,
                                                 bottom_as_size, top_as_size)} :
            /\ calls' = calls \o b.calls
            /\ mem' = MemWriteAll(mem, b.writes)
            /\ app' = [app EXCEPT !.bottom_as = b.bottom.as,
                                  !.bottom_as_memory = b.bottom.memory,
                                  !.top_as = b.top.as,
                                  !.top_as_memory = b.top.memory]
            /\ build' = [kind |-> "build",
                         vertex_buffer   |-> b.vertex_buffer,
                         index_buffer    |-> b.index_buffer,
                         instance_buffer |-> b.instance_buffer,
                         scratch_buffer  |-> b.scratch_buffer,
                         build_command_buffer |-> b.build_command_buffer]
            /\ gpuPending' = gpuPending \o b.commands
            /\ nextHandle' = b.build_command_buffer
    /\ stages' = Append(stages, "create_acceleration_structures")
    /\ pc' = "queue_wait_idle"
    /\ UNCHANGED <<instVars, frameVars, resVars, cfg, releases, gpuDone>>

\* The device executes the next submitted command; a queue runs the
\* commands of a command buffer in the order they were recorded.
GpuExecute ==
    /\ gpuPending # <<>>
    /\ gpuDone' = Append(gpuDone, Head(gpuPending))
    /\ gpuPending' = Tail(gpuPending)
    /\ UNCHANGED <<instVars, frameVars, resVars, pc, cfg, app, build, stages, releases, devVars>>

\* queue_wait_idle (main.rs 1486) returns only when the queue has nothing
\* left to execute.
queue_wait_idle_early == TRUE

queue_wait_idle_returns == gpuPending = <<>>

\* The locals of create_acceleration_structures that own device objects, in
\* the order Rust drops them at the end of the function: the reverse of
\* their declaration (main.rs 1027, 1038, 1234, 1379).
BuildLocalsDropOrder(b) ==
    << b.scratch_buffer, b.instance_buffer, b.index_buffer, b.vertex_buffer >>

RECURSIVE DropAll(_)
DropAll(rs) ==
    IF rs = <<>> THEN <<>>
    ELSE (IF Head(rs) = None THEN <<>> ELSE Resource_drop(Head(rs)))
         \o DropAll(Tail(rs))

\* The rest of create_acceleration_structures (main.rs 1486-1634): the
\* blocking wait, free_command_buffers, and the drop of the locals.
WaitAndFree ==
    /\ pc = "queue_wait_idle"
    /\ queue_wait_idle_returns
    /\ LET drops == DropAll(BuildLocalsDropOrder(build))
       IN  /\ calls' = calls
                \o << Call("queue_wait_idle", NullHandle,
                           [queue |-> "present_queue"]),
                      Call("free_command_buffers", build.build_command_buffer,
                           NoArgs) >>
                \o drops
           /\ mem' = MemFree(mem, FreedBy(drops))
    /\ build' = None
    /\ pc' = AfterStage(stages)
    /\ UNCHANGED <<instVars, frameVars, resVars, cfg, app, stages, releases, gpuPending,
                   gpuDone, nextHandle>>

\* create_bindless_uniform_buffers (main.rs 1636-1669); a colour is three
\* f32, held as tenths.
SizeOfF32 == 4

CreateBindlessUniformBuffers ==
    /\ AtStage("create_bindless_uniform_buffers")
    /\ LET buffer_size == SizeOfF32 * 3
           color0 == <<10, 0, 0>>
           color1 == <<0, 10, 0>>
           color2 == <<0, 0, 10>>
           b0 == BufferResource_new(nextHandle, buffer_size, "UNIFORM_BUFFER",
                                    {"HOST_VISIBLE"})
           b1 == BufferResource_new(nextHandle + b0.used, buffer_size,
                                    "UNIFORM_BUFFER", {"HOST_VISIBLE"})
           b2 == BufferResource_new(nextHandle + b0.used + b1.used, buffer_size,
                                    "UNIFORM_BUFFER", {"HOST_VISIBLE"})
       IN  /\ calls' = calls
                \o b0.calls \o BufferResource_store(b0.res, SizeOfF32, color0)
                \o b1.calls \o BufferResource_store(b1.res, SizeOfF32, color1)
                \o b2.calls \o BufferResource_store(b2.res, SizeOfF32, color2)
           /\ mem' = MemWrite(MemWrite(MemWrite(mem, b0.res.memory, color0),
                                       b1.res.memory, color1),
                              b2.res.memory, color2)
           /\ app' = [app EXCEPT !.color0_buffer = b0.res,
                                 !.color1_buffer = b1.res,
                                 !.color2_buffer = b2.res]
           /\ nextHandle' = nextHandle + b0.used + b1.used + b2.used
    /\ stages' = Append(stages, "create_bindless_uniform_buffers")
    /\ pc' = AfterStage(stages')
    /\ UNCHANGED <<instVars, frameVars, resVars, cfg, build, releases, gpuPending, gpuDone>>

(***************************************************************************)
(* create_pipeline (main.rs 1671-1920).                                    *)
(***************************************************************************)
SHADER_UNUSED_NV == -1

\* The descriptor-set layout bindings and their flags (main.rs 1672-1709).
descriptor_set_layout_bindings ==
    << [binding |-> 0, descriptor_type |-> "ACCELERATION_STRUCTURE_NV",
        descriptor_count |-> 1, stage_flags |-> "RAYGEN_NV"],
       [binding |-> 1, descriptor_type |-> "STORAGE_IMAGE",
        descriptor_count |-> 1, stage_flags |-> "RAYGEN_NV"],
       [binding |-> 0, descriptor_type |-> "UNIFORM_BUFFER",
        descriptor_count |-> 1, stage_flags |-> "CLOSEST_HIT_NV"] >>

binding_flags == << {}, {}, {"VARIABLE_DESCRIPTOR_COUNT"} >>

\* The flags create-info (main.rs 1678-1684) sets p_binding_flags and leaves
\* binding_count at its default.
binding_count == 0

\* The shader groups with a second miss group added after the three of
\* main.rs 1806-1837.
shader_groups_with_second_miss ==
    << [ty |-> "GENERAL", general_shader |-> 0,
        closest_hit_shader |-> SHADER_UNUSED_NV,
        any_hit_shader |-> SHADER_UNUSED_NV,
        intersection_shader |-> SHADER_UNUSED_NV],
       [ty |-> "TRIANGLES_HIT_GROUP", general_shader |-> SHADER_UNUSED_NV,
        closest_hit_shader |-> 1,
        any_hit_shader |-> SHADER_UNUSED_NV,
        intersection_shader |-> SHADER_UNUSED_NV],
       [ty |-> "GENERAL", general_shader |-> 2,
        closest_hit_shader |-> SHADER_UNUSED_NV,
        any_hit_shader |-> SHADER_UNUSED_NV,
        intersection_shader |-> SHADER_UNUSED_NV],
       [ty |-> "GENERAL", general_shader |-> 2,
        closest_hit_shader |-> SHADER_UNUSED_NV,
        any_hit_shader |-> SHADER_UNUSED_NV,
        intersection_shader |-> SHADER_UNUSED_NV] >>

\* The shader groups (main.rs 1806-1837).
shader_groups ==
    << [ty |-> "GENERAL", general_shader |-> 0,
        closest_hit_shader |-> SHADER_UNUSED_NV,
        any_hit_shader |-> SHADER_UNUSED_NV,
        intersection_shader |-> SHADER_UNUSED_NV],
       [ty |-> "TRIANGLES_HIT_GROUP", general_shader |-> SHADER_UNUSED_NV,
        closest_hit_shader |-> 1,
        any_hit_shader |-> SHADER_UNUSED_NV,
        intersection_shader |-> SHADER_UNUSED_NV],
       [ty |-> "GENERAL", general_shader |-> 2,
        closest_hit_shader |-> SHADER_UNUSED_NV,
        any_hit_shader |-> SHADER_UNUSED_NV,
        intersection_shader |-> SHADER_UNUSED_NV] >>

\* The branch condition of main.rs 1725 and 1843.
UseLibrary(c) == c.use_lib /\ c.use_hlsl

\* The shader stages (main.rs 1839-1897) for the modules the app holds.
shader_stages_miss_first(c, a) ==
    << [stage |-> "MISS_NV", module |-> a.lib_shader_module, name |-> "main"],
       [stage |-> "RAYGEN_NV", module |-> a.lib_shader_module, name |-> "main"],
       [stage |-> "CLOSEST_HIT_NV", module |-> a.lib_shader_module,
        name |-> "main"] >>

shader_stages(c, a) ==
    IF UseLibrary(c)
    THEN << [stage |-> "RAYGEN_NV", module |-> a.lib_shader_module,
             name |-> "rgen_main"],
            [stage |-> "CLOSEST_HIT_NV", module |-> a.lib_shader_module,
             name |-> "rchit_main"],
            [stage |-> "MISS_NV", module |-> a.lib_shader_module,
             name |-> "rmiss_main"] >>
    ELSE << [stage |-> "RAYGEN_NV", module |-> a.lib_shader_module,
             name |-> "main"],
            [stage |-> "CLOSEST_HIT_NV", module |-> a.lib_shader_module,
             name |-> "main"],
            [stage |-> "MISS_NV", module |-> a.lib_shader_module,
             name |-> "main"] >>

\* The shader files read (main.rs 1726, 1740-1751).
ShaderPaths(c) ==
    IF UseLibrary(c)
    THEN << "shaders/compiled/triangle.hlsl_lib.spv" >>
    ELSE IF c.use_hlsl
         THEN << "shaders/compiled/triangle.hlsl_rgen.spv",
                 "shaders/compiled/triangle.hlsl_bindless_rchit.spv",
                 "shaders/compiled/triangle.hlsl_rmiss.spv" >>
         ELSE << "shaders/compiled/triangle.glsl_rgen.spv",
                 "shaders/compiled/triangle.glsl_bindless_rchit.spv",
                 "shaders/compiled/triangle.glsl_rmiss.spv" >>

CreatePipeline ==
    /\ AtStage("create_pipeline")
    /\ LET layout == nextHandle + 1
           paths == ShaderPaths(cfg)
           modules == [i \in 1..Len(paths) |-> layout + i]
           withModules ==
               IF UseLibrary(cfg)
               THEN [app EXCEPT !.descriptor_set_layout = layout,
                                !.lib_shader_module = modules[1]]
               ELSE [app EXCEPT !.descriptor_set_layout = layout,
                                !.rgen_shader_module = modules[1],
                                !.chit_shader_module = modules[2],
                                !.miss_shader_module = modules[3]]
           pipeline_layout == layout + Len(paths) + 1
           pipeline == pipeline_layout + 1
       IN  /\ calls' = calls
                \o << Call("create_descriptor_set_layout", layout,
                           [bindings |-> descriptor_set_layout_bindings,
                            binding_flags |-> binding_flags,
                            binding_flags_count |-> binding_count]) >>
                \o [i \in 1..Len(paths) |->
                       Call("create_shader_module", modules[i],
                            [code |-> paths[i]])]
                \o << Call("create_pipeline_layout", pipeline_layout,
                           [set_layouts |-> << layout >>]),
                      Call("create_ray_tracing_pipelines", pipeline,
                           [stages |-> shader_stages(cfg, withModules),
                            groups |-> shader_groups,
                            max_recursion_depth |-> 1,
                            layout |-> pipeline_layout]) >>
           /\ app' = [withModules EXCEPT !.pipeline_layout = pipeline_layout,
                                         !.pipeline = pipeline]
           /\ nextHandle' = pipeline
    /\ stages' = Append(stages, "create_pipeline")
    /\ pc' = AfterStage(stages')
    /\ UNCHANGED <<instVars, frameVars, resVars, cfg, build, releases, gpuPending, gpuDone, mem>>

\* create_shader_binding_table (main.rs 1922-1946).  The table holds one
\* handle of shader_group_handle_size bytes per group, as the device
\* returns them for groups first_group .. first_group + group_count - 1.
CreateShaderBindingTable ==
    /\ AtStage("create_shader_binding_table")
    /\ LET group_count == 3
           table_size == app.properties.shader_group_handle_size * group_count
           table_data == [g \in 1..group_count |->
                            [pipeline |-> app.pipeline, group |-> g - 1]]
           sbt == BufferResource_new(nextHandle, table_size, "TRANSFER_SRC",
                                     {"HOST_VISIBLE"})
       IN  /\ calls' = calls
                \o << Call("get_ray_tracing_shader_group_handles", app.pipeline,
                           [first_group |-> 0, group_count |-> group_count,
                            data_size |-> table_size]) >>
                \o sbt.calls
                \o BufferResource_store(sbt.res,
                       app.properties.shader_group_handle_size, table_data)
           /\ mem' = MemWrite(mem, sbt.res.memory, table_data)
           /\ app' = [app EXCEPT !.shader_binding_table = sbt.res]
           /\ nextHandle' = nextHandle + sbt.used
    /\ stages' = Append(stages, "create_shader_binding_table")
    /\ pc' = AfterStage(stages')
    /\ UNCHANGED <<instVars, frameVars, resVars, cfg, build, releases, gpuPending, gpuDone>>

(***************************************************************************)
(* create_descriptor_set (main.rs 1948-2058).                              *)
(***************************************************************************)
descriptor_sizes ==
    << [ty |-> "ACCELERATION_STRUCTURE_NV", descriptor_count |-> 1],
       [ty |-> "STORAGE_IMAGE", descriptor_count |-> 1],
       [ty |-> "UNIFORM_BUFFER", descriptor_count |-> 3] >>

\* The three writes of main.rs 1995-2052 for app a and descriptor set s.
DescriptorWrites(a, s) ==
    << [dst_set |-> s, dst_binding |-> 0, dst_array_element |-> 0,
        descriptor_type |-> "ACCELERATION_STRUCTURE_NV", descriptor_count |-> 1,
        acceleration_structures |-> << a.top_as >>],
       [dst_set |-> s, dst_binding |-> 1, dst_array_element |-> 0,
        descriptor_type |-> "STORAGE_IMAGE", descriptor_count |-> 1,
        image_info |-> << [image_layout |-> "GENERAL",
                           image_view |-> a.offscreen_target.view] >>],
       [dst_set |-> s, dst_binding |-> 2, dst_array_element |-> 0,
        descriptor_type |-> "UNIFORM_BUFFER", descriptor_count |-> 3,
        buffer_info |-> << [buffer |-> a.color0_buffer.buffer],
                           [buffer |-> a.color1_buffer.buffer],
                           [buffer |-> a.color2_buffer.buffer] >>] >>

\* The struct literal of main.rs 1980-1986 names the pool and the layout and
\* leaves descriptor_set_count at its default, 0.  How many sets come back
\* is up to the binding and the device: the count is drawn from
\* 0..MaxSetsReturned.  With none returned descriptor_sets[0] (1993) panics,
\* as does unwrap (2024-2026) on a colour buffer that is None.
CreateDescriptorSet ==
    /\ AtStage("create_descriptor_set")
    /\ stages' = Append(stages, "create_descriptor_set")
    /\ \E returned \in 0..MaxSetsReturned :
        LET pool == nextHandle + 1
            descriptor_sets == [i \in 1..returned |-> pool + i]
            pool_calls ==
                << Call("create_descriptor_pool", pool,
                        [pool_sizes |-> descriptor_sizes, max_sets |-> 1]),
                   Call("allocate_descriptor_sets", pool,
                        [set_layouts |-> << app.descriptor_set_layout >>,
                         descriptor_set_count |-> 0,
                         result |-> descriptor_sets]) >>
        IN  IF returned = 0 \/ None \in {app.color0_buffer, app.color1_buffer,
                                         app.color2_buffer}
            THEN /\ calls' = calls \o pool_calls
                 /\ app' = [app EXCEPT !.descriptor_pool = pool,
                               !.descriptor_set =
                                   IF returned = 0 THEN @ ELSE descriptor_sets[1]]
                 /\ nextHandle' = pool + returned
                 /\ pc' = "aborted"
            ELSE /\ calls' = calls \o pool_calls
                      \o << Call("update_descriptor_sets", descriptor_sets[1],
                                 [writes |-> DescriptorWrites(app, descriptor_sets[1])]) >>
                 /\ app' = [app EXCEPT !.descriptor_pool = pool,
                                       !.descriptor_set = descriptor_sets[1]]
                 /\ nextHandle' = pool + returned
                 /\ pc' = AfterStage(stages')
    /\ UNCHANGED <<instVars, frameVars, resVars, cfg, build, releases, gpuPending, gpuDone, mem>>

\* vulkan_renderer.wait_device_idle() in main (main.rs 2145): blocks until
\* the device has nothing left to execute.
MainWaitIdle ==
    /\ pc = "initialized"
    /\ gpuPending = <<>>
    /\ calls' = Append(calls, Call("device_wait_idle", NullHandle, NoArgs))
    /\ pc' = "release"
    /\ UNCHANGED <<instVars, frameVars, resVars, cfg, app, build, stages, releases,
                   gpuPending, gpuDone, mem, nextHandle>>

(***************************************************************************)
(* RayTracingApp::release (main.rs 2060-2103).                             *)
(***************************************************************************)
\* The Option<BufferResource> fields release sets to None, in order.
ReleasedBuffers(a) ==
    << a.shader_binding_table, a.color0_buffer, a.color1_buffer, a.color2_buffer >>

\* The device calls of one release of app a.
ReleaseCalls(a) ==
    << Call("device_wait_idle", NullHandle, NoArgs),
       Call("destroy_acceleration_structure", a.top_as, NoArgs),
       Call("free_memory", a.top_as_memory, NoArgs),
       Call("destroy_acceleration_structure", a.bottom_as, NoArgs),
       Call("free_memory", a.bottom_as_memory, NoArgs),
       Call("destroy_descriptor_pool", a.descriptor_pool, NoArgs) >>
    \o DropAll(ReleasedBuffers(a))
    \o << Call("destroy_pipeline", a.pipeline, NoArgs),
          Call("destroy_pipeline_layout", a.pipeline_layout, NoArgs),
          Call("destroy_descriptor_set_layout", a.descriptor_set_layout, NoArgs),
          Call("destroy_shader_module", a.rgen_shader_module, NoArgs),
          Call("destroy_shader_module", a.chit_shader_module, NoArgs),
          Call("destroy_shader_module", a.miss_shader_module, NoArgs),
          Call("destroy_shader_module", a.lib_shader_module, NoArgs) >>

Release ==
    /\ pc = "release"
    /\ releases < MaxReleaseCalls
    /\ gpuPending = <<>>
    /\ LET cs == ReleaseCalls(app)
       IN  /\ calls' = calls \o cs
           /\ mem' = MemFree(mem, FreedBy(cs))
    /\ app' = [app EXCEPT !.shader_binding_table = None,
                          !.color0_buffer = None,
                          !.color1_buffer = None,
                          !.color2_buffer = None]
    /\ releases' = releases + 1
    /\ UNCHANGED <<instVars, frameVars, resVars, pc, cfg, build, stages, gpuPending,
                   gpuDone, nextHandle>>

\* The end of main's block (main.rs 2147): app goes out of scope and its
\* fields are dropped in declaration order (main.rs 928-934).
AppDropOrder(a) ==
    << a.shader_binding_table, a.color0_buffer, a.color1_buffer,
       a.color2_buffer, a.offscreen_target >>

DropApp ==
    /\ pc = "release"
    /\ releases >= 1
    /\ LET cs == DropAll(AppDropOrder(app))
       IN  /\ calls' = calls \o cs
           /\ mem' = MemFree(mem, FreedBy(cs))
    /\ pc' = "exit"
    /\ UNCHANGED <<instVars, frameVars, resVars, cfg, app, build, stages, releases,
                   gpuPending, gpuDone, nextHandle>>

Next ==
    \/ CreateOffscreenTarget
    \/ BuildAndSubmit
    \/ GpuExecute
    \/ WaitAndFree
    \/ CreateBindlessUniformBuffers
    \/ CreatePipeline
    \/ CreateShaderBindingTable
    \/ CreateDescriptorSet
    \/ MainWaitIdle
    \/ Release
    \/ DropApp

Spec == Init /\ [][Next]_vars

(***************************************************************************)
(* Reading the call log.                                                   *)
(***************************************************************************)
Idx == 1..Len(calls)

\* The positions of the calls of operation op.
CallsOf(op) == {i \in Idx : calls[i].op = op}

IsBuild(c, ty) == c.op = "cmd_build_acceleration_structure" /\ c.a.ty = ty

BuildsOf(ty) == {i \in Idx : IsBuild(calls[i], ty)}

\* An acceleration-structure read/write memory barrier between two
\* acceleration-structure-build stages.
IsBuildBarrier(c) ==
    /\ c.op = "cmd_pipeline_barrier"
    /\ c.a.src_stage = "ACCELERATION_STRUCTURE_BUILD_NV"
    /\ c.a.dst_stage = "ACCELERATION_STRUCTURE_BUILD_NV"
    /\ c.a.src_access = {"ACCELERATION_STRUCTURE_WRITE_NV", "ACCELERATION_STRUCTURE_READ_NV"}
    /\ c.a.dst_access = {"ACCELERATION_STRUCTURE_WRITE_NV", "ACCELERATION_STRUCTURE_READ_NV"}

\* create_acceleration_structures has recorded its command buffer.
BuildRecorded == Len(stages) >= 2

(***************************************************************************)
(* C1: the build command buffer holds the bottom-level build, then an      *)
(* acceleration-structure read/write barrier (both stages                  *)
(* acceleration-structure-build), then the top-level build: once recorded  *)
(* there is one build of each level, both in the same command buffer, the  *)
(* bottom-level one first, with such a barrier strictly between them; the  *)
(* device executes them in that order too.                                 *)
(***************************************************************************)
C1_BarrierBetweenBuilds ==
    /\ BuildRecorded =>
          /\ Cardinality(BuildsOf("BOTTOM_LEVEL")) = 1
          /\ Cardinality(BuildsOf("TOP_LEVEL")) = 1
    /\ \A t \in BuildsOf("TOP_LEVEL") :
          \E b \in BuildsOf("BOTTOM_LEVEL") :
              /\ b < t
              /\ calls[b].h = calls[t].h
              /\ \E k \in Idx : /\ b < k /\ k < t
                                /\ IsBuildBarrier(calls[k])
                                /\ calls[k].h = calls[t].h
    /\ \A b \in BuildsOf("BOTTOM_LEVEL"), t \in BuildsOf("TOP_LEVEL") : b < t
    /\ \A j \in 1..Len(gpuDone) :
          IsBuild(gpuDone[j], "TOP_LEVEL") =>
              \E i, k \in 1..Len(gpuDone) :
                  /\ i < k /\ k < j
                  /\ IsBuild(gpuDone[i], "BOTTOM_LEVEL")
                  /\ IsBuildBarrier(gpuDone[k])

\* The command buffer has been recorded and submitted and the device has
\* executed the top-level build.
C1_Witness ==
    /\ BuildsOf("TOP_LEVEL") # {}
    /\ \E j \in 1..Len(gpuDone) : IsBuild(gpuDone[j], "TOP_LEVEL")

(***************************************************************************)
(* The transient objects of the build: the vertex, index, instance and     *)
(* scratch buffers with their memory, and the build command buffer.        *)
(***************************************************************************)
TransientUsages == {"VERTEX_BUFFER", "INDEX_BUFFER", "RAY_TRACING_NV"}

TransientBuffers ==
    {calls[i].h : i \in {j \in CallsOf("create_buffer") :
                            calls[j].a.usage \in TransientUsages}}

TransientMemory ==
    {calls[i].a.memory : i \in {j \in CallsOf("bind_buffer_memory") :
                                   calls[j].h \in TransientBuffers}}

BuildCommandBuffers ==
    {calls[i].h : i \in CallsOf("allocate_command_buffers")}

TransientHandles == TransientBuffers \cup TransientMemory \cup BuildCommandBuffers

IsDestroyOf(c, hs) == c.op \in DestroyOps /\ c.h \in hs

C3_ReleaseTwiceDestroysOnce ==
    releases = 2 => \A h \in 1..nextHandle : DestroyCount(calls, h) <= 1

(***************************************************************************)
(* C6: initialize enters its six stages in the order offscreen target,     *)
(* acceleration structures, uniform buffers, pipeline, shader binding      *)
(* table, descriptor set, and each handle a stage takes from an earlier    *)
(* one was created before it is used: the pipeline whose group handles the *)
(* shader binding table queries; the descriptor-set layout the set is      *)
(* allocated with; the top-level structure, the offscreen view and the     *)
(* three colour buffers the descriptor writes name.                        *)
(***************************************************************************)
IsPrefix(s, t) == Len(s) <= Len(t) /\ \A i \in 1..Len(s) : s[i] = t[i]

\* Handle h is non-null and was created by a call of op before position i.
CreatedBefore(op, h, i) ==
    /\ h # NullHandle
    /\ \E c \in CallsOf(op) : c < i /\ calls[c].h = h

C6_StageOrderAndHandles ==
    /\ IsPrefix(stages,
                << "create_offscreen_target", "create_acceleration_structures",
                   "create_bindless_uniform_buffers", "create_pipeline",
                   "create_shader_binding_table", "create_descriptor_set" >>)
    /\ pc = "initialized" => Len(stages) = 6
    /\ \A i \in CallsOf("get_ray_tracing_shader_group_handles") :
          CreatedBefore("create_ray_tracing_pipelines", calls[i].h, i)
    /\ \A i \in CallsOf("allocate_descriptor_sets") :
          CreatedBefore("create_descriptor_set_layout", calls[i].a.set_layouts[1], i)
    /\ \A i \in CallsOf("update_descriptor_sets") :
          LET w == calls[i].a.writes
          IN  /\ CreatedBefore("create_acceleration_structure",
                               w[1].acceleration_structures[1], i)
              /\ w[1].acceleration_structures[1] = app.top_as
              /\ CreatedBefore("create_image_view", w[2].image_info[1].image_view, i)
              /\ \A k \in 1..3 :
                    CreatedBefore("create_buffer", w[3].buffer_info[k].buffer, i)
              /\ Cardinality({w[3].buffer_info[k].buffer : k \in 1..3}) = 3

\* initialize has returned: all six stages ran and the descriptor writes
\* were made.
C6_Witness ==
    /\ pc = "initialized"
    /\ CallsOf("update_descriptor_sets") # {}
    /\ CallsOf("get_ray_tracing_shader_group_handles") # {}

(***************************************************************************)
(* C7: teardown of the ray-tracing resources is the exact reverse of the   *)
(* initialization order (descriptor pool, shader binding table, pipeline,  *)
(* uniform buffers, acceleration structures, offscreen target) and starts  *)
(* only after a device-idle wait.                                          *)
(***************************************************************************)
\* What the memory allocation m is bound to: the bind call naming it.
BindOf(m) ==
    {i \in Idx : /\ calls[i].op \in {"bind_buffer_memory", "bind_image_memory",
                                     "bind_acceleration_structure_memory"}
                 /\ calls[i].a.memory = m}

UsageOf(b) ==
    {calls[i].a.usage : i \in {j \in CallsOf("create_buffer") : calls[j].h = b}}

\* The initialization stage (1..6) that created the object a destroy call
\* names; 0 for a null handle or a transient of the build.
StageOfBuffer(b) ==
    IF "UNIFORM_BUFFER" \in UsageOf(b) THEN 3
    ELSE IF "TRANSFER_SRC" \in UsageOf(b) THEN 5 ELSE 0

StageOfMemory(m) ==
    IF \E i \in BindOf(m) : calls[i].op = "bind_image_memory" THEN 1
    ELSE IF \E i \in BindOf(m) : calls[i].op = "bind_acceleration_structure_memory"
         THEN 2
    ELSE IF \E i \in BindOf(m) : StageOfBuffer(calls[i].h) = 3 THEN 3
    ELSE IF \E i \in BindOf(m) : StageOfBuffer(calls[i].h) = 5 THEN 5 ELSE 0

StageOfDestroy(c) ==
    IF c.h = NullHandle \/ c.op \notin DestroyOps THEN 0
    ELSE CASE c.op \in {"destroy_image", "destroy_image_view", "destroy_sampler"} -> 1
           [] c.op = "destroy_acceleration_structure" -> 2
           [] c.op = "destroy_buffer" -> StageOfBuffer(c.h)
           [] c.op = "free_memory" -> StageOfMemory(c.h)
           [] c.op \in {"destroy_pipeline", "destroy_pipeline_layout",
                        "destroy_descriptor_set_layout", "destroy_shader_module"} -> 4
           [] c.op = "destroy_descriptor_pool" -> 6
           [] OTHER -> 0

C7_TeardownReversesInit ==
    /\ \A i, j \in Idx :
          (i < j /\ StageOfDestroy(calls[i]) > 0 /\ StageOfDestroy(calls[j]) > 0)
              => StageOfDestroy(calls[i]) >= StageOfDestroy(calls[j])
    /\ \A i \in Idx :
          StageOfDestroy(calls[i]) > 0 =>
              \E w \in CallsOf("device_wait_idle") : w < i

(***************************************************************************)
(* C10: the instance buffer uploaded by create_acceleration_structures     *)
(* holds exactly 3 records of 64 bytes, in order, with transforms T0, T1,  *)
(* T2 and ids 0, 1, 2, each naming the handle H queried from the one       *)
(* bottom-level structure; the buffer is 3 records long, and the top-level *)
(* structure is created and built with instance count 3, from that buffer. *)
(***************************************************************************)
C10_InstanceBuffer ==
    pc = "queue_wait_idle" =>
        LET ib   == build.instance_buffer
            data == mem[ib.memory]
            hq   == CallsOf("get_acceleration_structure_handle")
            tops == {i \in CallsOf("create_acceleration_structure") :
                        calls[i].a.ty = "TOP_LEVEL"}
            bots == {i \in CallsOf("create_acceleration_structure") :
                        calls[i].a.ty = "BOTTOM_LEVEL"}
        IN  /\ Len(data) = 3
            /\ data[1].transform = <<10, 0, 0, -15, 0, 10, 0, 11, 0, 0, 10, 0>>
            /\ data[2].transform = <<10, 0, 0, 0, 0, 10, 0, -11, 0, 0, 10, 0>>
            /\ data[3].transform = <<10, 0, 0, 15, 0, 10, 0, 11, 0, 0, 10, 0>>
            /\ \A k \in 1..3 : Lo24(data[k].instance_id_and_mask) = k - 1
            /\ Cardinality(bots) = 1 /\ Cardinality(hq) = 1
            /\ \A q \in hq :
                  /\ calls[q].h = app.bottom_as
                  /\ \A k \in 1..3 : data[k].acceleration_handle = calls[q].a.result
            /\ ib.size = 3 * 64
            /\ \A m \in CallsOf("map_memory") :
                  calls[m].h = ib.memory => calls[m].a.size = 3 * 64
            /\ Cardinality(tops) = 1
            /\ \A t \in tops : calls[t].a.instance_count = 3
            /\ \A t \in BuildsOf("TOP_LEVEL") :
                  /\ calls[t].a.instance_count = 3
                  /\ calls[t].a.instance_data = ib.buffer

\* The instance buffer is uploaded and the build submitted, with H = 2.
C10_Witness ==
    /\ pc = "queue_wait_idle"
    /\ \E q \in CallsOf("get_acceleration_structure_handle") : calls[q].a.result = 2
    /\ build.instance_buffer.memory \in DOMAIN mem

(***************************************************************************)
(* SpecBuf: BufferResource::new on any device and for any requested        *)
(* properties, then store and drop on the values it returned.  A panic     *)
(* (unwrap on None) ends the run with pc = "aborted".                      *)
(***************************************************************************)
MaxBuffers == 1    \* calls of BufferResource::new
MaxStores  == 2    \* calls of store

MemoryTables == {ReferenceMemoryTypes, << {"DEVICE_LOCAL"}, {"HOST_VISIBLE"} >>}

Devices == [memory_type_bits : {{0, 1, 2}, {0, 2}, {0}}, alignment : {1, 8}]

RequestedProperties ==
    { {"HOST_VISIBLE", "HOST_COHERENT"}, {"HOST_VISIBLE"}, {"DEVICE_LOCAL"} }

\* Slices passed to store: the element size in bytes and the elements.
StoreData ==
    { [elem |-> 2, data |-> <<0, 1, 2>>], [elem |-> 4, data |-> <<10, 0, 0>>],
      [elem |-> 1, data |-> <<7>>], [elem |-> 12, data |-> <<3, 4, 5>>] }

InitBuf ==
    /\ InstIdle /\ ResIdle /\ AppIdle /\ DevIdle /\ NoFrames
    /\ base \in {VulkanRenderer_new(d, t) : d \in Devices, t \in MemoryTables}

\* The property flags of the memory type allocation m was made from.
MemoryTypeOf(m) ==
    UNION {base.memory_properties[calls[i].a.memory_type_index + 1] :
              i \in {j \in 1..Len(calls) : /\ calls[j].op = "allocate_memory"
                                           /\ calls[j].h = m}}

\* BufferResource::new (main.rs 191-232).
BufNew ==
    /\ pc = "off"
    /\ made.new < MaxBuffers
    /\ made' = [made EXCEPT !.new = @ + 1]
    /\ \E size \in BufSizes, memory_properties \in RequestedProperties :
        LET r == BufferResource_new(nextHandle, size, "VERTEX_BUFFER",
                                    memory_properties)
        IN  /\ request' = [kind |-> "new", size |-> size,
                           memory_properties |-> memory_properties]
            /\ calls' = calls \o r.calls
            /\ nextHandle' = nextHandle + r.used
            /\ owners' = IF r.ok THEN Append(owners, r.res) ELSE owners
            /\ pc' = IF r.ok THEN pc ELSE "aborted"
    /\ UNCHANGED <<instVars, frameVars, lastDrop, cfg, app, build, stages,
                   releases, gpuPending, gpuDone, mem>>

\* store (main.rs 234-242) on owners[i], which the caller must have
\* allocated host-visible, with data that fits the buffer.
BufStore(i) ==
    /\ pc = "off"
    /\ made.store < MaxStores
    /\ made' = [made EXCEPT !.store = @ + 1]
    /\ "HOST_VISIBLE" \in MemoryTypeOf(owners[i].memory)
    /\ \E d \in StoreData :
        /\ d.elem * Len(d.data) <= owners[i].size
        /\ calls' = calls \o BufferResource_store(owners[i], d.elem, d.data)
        /\ mem' = MemWrite(mem, owners[i].memory, d.data)
        /\ request' = [kind |-> "store", memory |-> owners[i].memory,
                       data |-> d.data]
    /\ UNCHANGED <<instVars, frameVars, owners, lastDrop, appVars, nextHandle>>

BufDrop(i) == pc = "off" /\ ResDrop(i)

NextBuf ==
    \/ BufNew
    \/ \E i \in 1..Len(owners) : BufStore(i)
    \/ \E i \in 1..Len(owners) : BufDrop(i)

SpecBuf == InitBuf /\ [][NextBuf]_vars

\* How many calls of op the log holds for handle h.
CallCount(op, h) ==
    Cardinality({i \in 1..Len(calls) : calls[i].op = op /\ calls[i].h = h})

Satisfies(i, req, fl) ==
    /\ i \in req.memory_type_bits
    /\ i \in 0..(Len(base.memory_properties) - 1)
    /\ fl \subseteq base.memory_properties[i + 1]

\* The latest thing to happen is a call of BufferResource::new.
NewReturned ==
    /\ request.kind = "new"
    /\ pc = "aborted" \/ calls[Len(calls)].op = "bind_buffer_memory"

C12_AllocationFollowsSelection ==
    /\ \A i \in 1..Len(calls) :
          calls[i].op = "allocate_memory" =>
              /\ i >= 3 /\ i < Len(calls)
              /\ calls[i - 2].op = "create_buffer"
              /\ calls[i - 1].op = "get_buffer_memory_requirements"
              /\ calls[i - 1].h = calls[i - 2].h
              /\ Satisfies(calls[i].a.memory_type_index, calls[i - 1].a.result,
                           calls[i].a.flags)
              /\ Some(calls[i].a.memory_type_index)
                    = find_memorytype_index(calls[i - 1].a.result,
                                            base.memory_properties, calls[i].a.flags)
              /\ calls[i].a.allocation_size = calls[i - 1].a.result.size
              /\ calls[i + 1] = Call("bind_buffer_memory", calls[i - 2].h,
                                     [memory |-> calls[i].h, offset |-> 0])
    /\ NewReturned =>
          LET c == IF pc = "aborted" THEN Len(calls) - 1 ELSE Len(calls) - 3
          IN  /\ c >= 1
              /\ calls[c].op = "create_buffer"
              /\ calls[c].a.size = request.size
              /\ pc # "aborted" =>
                    /\ calls[c + 2].op = "allocate_memory"
                    /\ calls[c + 2].a.flags = request.memory_properties
                    /\ owners[Len(owners)].size = request.size
                    /\ owners[Len(owners)].buffer = calls[c].h
                    /\ owners[Len(owners)].memory = calls[c + 2].h
    /\ pc = "aborted" =>
          /\ request.kind = "new"
          /\ calls[Len(calls)].op = "get_buffer_memory_requirements"
          /\ \A i \in 0..(Len(base.memory_properties) - 1) :
                ~Satisfies(i, calls[Len(calls)].a.result, request.memory_properties)
          /\ Cardinality({i \in 1..Len(calls) : calls[i].op = "allocate_memory"})
                = Len(owners) + Cardinality({i \in 1..Len(calls) :
                                                calls[i].op = "destroy_buffer"})
    /\ (NewReturned /\ pc # "aborted") =>
          \E i \in 0..(Len(base.memory_properties) - 1) :
              Satisfies(i, calls[Len(calls) - 2].a.result, request.memory_properties)

\* A buffer whose memory came from type 2: type 0 lacks a requested
\* property and type 1, which has them all, is not allowed for the buffer.
C12_Witness ==
    /\ NewReturned
    /\ pc # "aborted"
    /\ 1 \notin base.device.memory_type_bits
    /\ request.memory_properties \subseteq base.memory_properties[2]
    /\ \E i \in 1..Len(calls) :
          calls[i].op = "allocate_memory" /\ calls[i].a.memory_type_index = 2

(***************************************************************************)
(* C13: the shader binding table is a buffer of exactly                    *)
(* shader_group_handle_size * N bytes, N the number of shader groups the   *)
(* pipeline was created with (3 here); N group handles are queried,        *)
(* starting at group 0, and the table holds them in group order: raygen,   *)
(* hit, miss.                                                              *)
(***************************************************************************)
\* The stage the shader a group names belongs to, in a pipeline created by
\* call p of the log.
GroupStage(p, g) ==
    LET group == calls[p].a.groups[g]
        shader == IF group.ty = "GENERAL" THEN group.general_shader
                                          ELSE group.closest_hit_shader
    IN  calls[p].a.stages[shader + 1].stage

C13_ShaderBindingTable ==
    \A q \in CallsOf("get_ray_tracing_shader_group_handles") :
        \E p \in CallsOf("create_ray_tracing_pipelines") :
            LET N  == Len(calls[p].a.groups)
                hs == app.properties.shader_group_handle_size
                sbt == {c \in CallsOf("create_buffer") :
                           calls[c].a.usage = "TRANSFER_SRC"}
            IN  /\ p < q /\ calls[p].h = calls[q].h
                /\ N = 3
                /\ calls[q].a.first_group = 0
                /\ calls[q].a.group_count = N
                /\ calls[q].a.data_size = hs * N
                /\ Cardinality(sbt) = 1
                /\ \A c \in sbt : c > q /\ calls[c].a.size = hs * N
                /\ <<GroupStage(p, 1), GroupStage(p, 2), GroupStage(p, 3)>>
                      = <<"RAYGEN_NV", "CLOSEST_HIT_NV", "MISS_NV">>
                /\ app.shader_binding_table # None =>
                      LET t == app.shader_binding_table
                      IN  /\ t.size = hs * N
                          /\ \A c \in sbt : calls[c].h = t.buffer
                          /\ Len(mem[t.memory]) = N
                          /\ \A g \in 1..N :
                                mem[t.memory][g] = [pipeline |-> calls[p].h,
                                                    group |-> g - 1]
                          /\ \A m \in CallsOf("map_memory") :
                                calls[m].h = t.memory => calls[m].a.size = hs * N

\* The table has been uploaded for a device whose handles are 32 bytes.
C13_Witness ==
    /\ app.shader_binding_table # None
    /\ app.properties.shader_group_handle_size = 32
    /\ app.shader_binding_table.memory \in DOMAIN mem
    /\ app.shader_binding_table.size = 96

(***************************************************************************)
(* VulkanRenderer::draw_frame and recreate_swapchain (main.rs 683-870).    *)
(* SpecFrame follows a caller that invokes draw_frame and                  *)
(* resize_framebuffer repeatedly, the presentation engine's answers and    *)
(* the device completing submitted frames.                                 *)
(***************************************************************************)
MaxFrames == 3

ImageCount == 2

Ok(v) == [kind |-> "ok", value |-> v]

Err(code) == [kind |-> "err", code |-> code]

\* The sync objects and per-image uniform memory made once by
\* VulkanRenderer::new (main.rs 497-510), with handles h+1 ...
SyncObjects(h) ==
    [in_flight_fences           |-> [i \in 1..MAX_FRAMES_IN_FLIGHT |-> h + i],
     image_available_semaphores |->
         [i \in 1..MAX_FRAMES_IN_FLIGHT |-> h + MAX_FRAMES_IN_FLIGHT + i],
     render_finished_semaphores |->
         [i \in 1..MAX_FRAMES_IN_FLIGHT |-> h + 2 * MAX_FRAMES_IN_FLIGHT + i],
     uniform_buffers_memory     |->
         [i \in 1..ImageCount |-> h + 3 * MAX_FRAMES_IN_FLIGHT + i]]

SyncHandles == 3 * MAX_FRAMES_IN_FLIGHT + ImageCount

\* The swapchain-dependent fields as the creators called by
\* recreate_swapchain (main.rs 788-869) fill them, with handles h+1 ...
SwapchainObjects(h) ==
    [swapchain              |-> h + 1,
     swapchain_imageviews   |-> [i \in 1..ImageCount |-> h + 1 + i],
     render_pass            |-> h + ImageCount + 2,
     graphics_pipeline      |-> h + ImageCount + 3,
     pipeline_layout        |-> h + ImageCount + 4,
     color_image            |-> h + ImageCount + 5,
     color_image_view       |-> h + ImageCount + 6,
     color_image_memory     |-> h + ImageCount + 7,
     depth_image            |-> h + ImageCount + 8,
     depth_image_view       |-> h + ImageCount + 9,
     depth_image_memory     |-> h + ImageCount + 10,
     swapchain_framebuffers |-> [i \in 1..ImageCount |-> h + ImageCount + 10 + i],
     command_buffers        |->
         [i \in 1..ImageCount |-> h + 2 * ImageCount + 10 + i]]

SwapchainHandles == 3 * ImageCount + 10

cleanup_swapchain_and_ray_tracing(o) ==
    << Call("destroy_pipeline", app.pipeline, NoArgs),
       Call("destroy_swapchain", o.swapchain, NoArgs) >>

\* cleanup_swapchain (main.rs 872-897).
cleanup_swapchain(o) ==
    << Call("destroy_image", o.depth_image, NoArgs),
       Call("destroy_image_view", o.depth_image_view, NoArgs),
       Call("free_memory", o.depth_image_memory, NoArgs),
       Call("destroy_image", o.color_image, NoArgs),
       Call("destroy_image_view", o.color_image_view, NoArgs),
       Call("free_memory", o.color_image_memory, NoArgs),
       Call("free_command_buffers", NullHandle,
            [command_buffers |-> o.command_buffers]) >>
    \o [i \in 1..ImageCount |->
           Call("destroy_framebuffer", o.swapchain_framebuffers[i], NoArgs)]
    \o << Call("destroy_pipeline", o.graphics_pipeline, NoArgs),
          Call("destroy_pipeline_layout", o.pipeline_layout, NoArgs),
          Call("destroy_render_pass", o.render_pass, NoArgs) >>
    \o [i \in 1..ImageCount |->
           Call("destroy_image_view", o.swapchain_imageviews[i], NoArgs)]
    \o << Call("destroy_swapchain", o.swapchain, NoArgs) >>

\* The calls of recreate_swapchain (main.rs 776-870) that replace the
\* objects `old` by `new`.
recreate_swapchain(old, new) ==
    << Call("device_wait_idle", NullHandle, NoArgs) >>
    \o cleanup_swapchain(old)
    \o << Call("create_swapchain", new.swapchain, NoArgs),
          Call("create_image_views", NullHandle,
               [result |-> new.swapchain_imageviews]),
          Call("create_render_pass", new.render_pass, NoArgs),
          Call("create_graphics_pipeline", new.graphics_pipeline,
               [pipeline_layout |-> new.pipeline_layout]),
          Call("create_color_resources", new.color_image,
               [view |-> new.color_image_view, memory |-> new.color_image_memory]),
          Call("create_depth_resources", new.depth_image,
               [view |-> new.depth_image_view, memory |-> new.depth_image_memory]),
          Call("create_framebuffers", NullHandle,
               [result |-> new.swapchain_framebuffers]),
          Call("create_command_buffers", NullHandle,
               [result |-> new.command_buffers]) >>

\* What acquire_next_image can answer: an image index with the suboptimal
\* flag, or an error code.
AcquireResults ==
    {Ok([image_index |-> i, is_sub_optimal |-> b]) :
        i \in 0..(ImageCount - 1), b \in BOOLEAN}
    \cup {Err("ERROR_OUT_OF_DATE_KHR"), Err("ERROR_SURFACE_LOST_KHR")}

\* The presentation engine hands the swapchain images out in rotation.
RotatesImages(acq) ==
    acq.kind = "ok" => acq.value.image_index = drawn % ImageCount

\* What queue_present can answer: success with the suboptimal flag, or an
\* error code.
PresentResults ==
    {Ok(b) : b \in BOOLEAN}
    \cup {Err("ERROR_OUT_OF_DATE_KHR"), Err("SUBOPTIMAL_KHR"),
          Err("ERROR_SURFACE_LOST_KHR")}

\* VulkanRenderer::new has returned; whether create_sync_objects made the
\* fences signaled is left open.
InitFrame ==
    /\ InstIdle /\ ResIdle
    /\ pc = "main_loop" /\ cfg = [use_lib |-> FALSE, use_hlsl |-> TRUE]
    /\ app = [none |-> TRUE] /\ build = [none |-> TRUE]
    /\ stages = <<>> /\ releases = 0
    /\ gpuPending = <<>> /\ gpuDone = <<>>
    /\ mem = <<>> /\ calls = <<>>
    /\ nextHandle = SyncHandles + SwapchainHandles
    /\ base = VulkanRenderer_new(ReferenceDevice, ReferenceMemoryTypes)
    /\ fences \in [0..(MAX_FRAMES_IN_FLIGHT - 1) -> BOOLEAN]
    /\ inFlight = {}
    /\ frame = None
    /\ drawn = 0
    /\ swapchain = [sync |-> SyncObjects(0), objects |-> SwapchainObjects(SyncHandles)]

\* wait_for_fences with an unbounded timeout (main.rs 687-691) returns once
\* the fence is signaled.
wait_for_fences_returns_at_once(f) == TRUE

wait_for_fences_returns(f) == fences[f]

\* device_wait_idle (main.rs 899-905) returns once no submitted frame is
\* still executing.
device_wait_idle_returns == inFlight = {}

next_current_frame(current_frame) == (current_frame + 1) % MAX_FRAMES_IN_FLIGHT

\* The calls of update_uniform_buffer (main.rs 602-627); the matrix it
\* writes is not followed.
update_uniform_buffer(current_image) ==
    LET m == swapchain.sync.uniform_buffers_memory[current_image + 1]
    IN  << Call("map_memory", m, [offset |-> 0]),
           Call("unmap_memory", m, NoArgs) >>

\* The wait on the frame's fence (main.rs 684-691).
wait_call(cf) ==
    Call("wait_for_fences", swapchain.sync.in_flight_fences[cf + 1],
         [wait_all |-> TRUE])

\* acquire_next_image (main.rs 693-699) answering acq.
acquire_call(cf, acq) ==
    Call("acquire_next_image", swapchain.objects.swapchain,
         [semaphore |-> swapchain.sync.image_available_semaphores[cf + 1],
          fence |-> NullHandle, result |-> acq])

\* reset_fences and queue_submit (main.rs 712-742).
submit_calls_swapped(cf, image_index) ==
    << Call("reset_fences", swapchain.sync.in_flight_fences[cf + 1], NoArgs),
       Call("queue_submit", "graphics_queue",
            [wait_semaphore   |-> swapchain.sync.render_finished_semaphores[cf + 1],
             command_buffer   |-> swapchain.objects.command_buffers[image_index + 1],
             signal_semaphore |-> swapchain.sync.image_available_semaphores[cf + 1],
             fence            |-> swapchain.sync.in_flight_fences[cf + 1]]) >>

submit_calls(cf, image_index) ==
    << Call("reset_fences", swapchain.sync.in_flight_fences[cf + 1], NoArgs),
       Call("queue_submit", "graphics_queue",
            [wait_semaphore   |-> swapchain.sync.image_available_semaphores[cf + 1],
             command_buffer   |-> swapchain.objects.command_buffers[image_index + 1],
             signal_semaphore |-> swapchain.sync.render_finished_semaphores[cf + 1],
             fence            |-> swapchain.sync.in_flight_fences[cf + 1]]) >>

\* queue_present (main.rs 744-759) answering pres.
present_call(cf, image_index, pres) ==
    Call("queue_present", swapchain.objects.swapchain,
         [wait_semaphore |-> swapchain.sync.render_finished_semaphores[cf + 1],
          image_index |-> image_index, result |-> pres])

is_resized_on_error(pres) ==
    pres.kind = "err" /\ pres.code \in {"ERROR_OUT_OF_DATE_KHR", "SUBOPTIMAL_KHR"}

\* is_resized (main.rs 761-767); any other error of the presentation
\* panics, the first branch draw_frame takes after a presentation.
is_resized(pres) ==
    IF pres.kind = "ok" THEN base.is_framebuffer_resized
    ELSE pres.code \in {"ERROR_OUT_OF_DATE_KHR", "SUBOPTIMAL_KHR"}

\* draw_frame (main.rs 683-774) up to the point where it returns, panics or
\* enters recreate_swapchain; acq and pres are the answers of
\* acquire_next_image and queue_present.
draw_frame(acq, pres) ==
    LET cf   == base.current_frame
        wait == wait_call(cf)
        acquire == acquire_call(cf, acq)
        image_index == acq.value.image_index
        submit == submit_calls(cf, image_index)
        present == present_call(cf, image_index, pres)
        submitted == [id |-> drawn + 1, fence |-> cf, image |-> image_index]
    IN
    /\ pc = "main_loop"
    /\ drawn < MaxFrames
    /\ wait_for_fences_returns(cf)
    /\ drawn' = drawn + 1
    /\ IF acq.kind = "err"
       THEN /\ calls' = calls \o <<wait, acquire>>
            /\ IF acq.code = "ERROR_OUT_OF_DATE_KHR"
               THEN pc' = "recreate_swapchain" /\ frame' = Some([returns |-> TRUE])
               ELSE pc' = "aborted" /\ frame' = None
            /\ UNCHANGED <<base, fences, inFlight>>
       ELSE /\ calls' = calls \o <<wait, acquire>>
                        \o update_uniform_buffer(image_index)
                        \o submit \o <<present>>
            /\ fences' = [fences EXCEPT ![cf] = FALSE]
            /\ inFlight' = inFlight \cup {submitted}
            /\ IF pres.kind = "err" /\ ~is_resized(pres)
               THEN pc' = "aborted" /\ frame' = None /\ UNCHANGED base
               ELSE IF is_resized(pres)
               THEN /\ base' = [base EXCEPT !.is_framebuffer_resized = FALSE]
                    /\ pc' = "recreate_swapchain"
                    /\ frame' = Some([returns |-> FALSE])
               ELSE /\ base' = [base EXCEPT !.current_frame = next_current_frame(cf)]
                    /\ pc' = "main_loop"
                    /\ frame' = None
    /\ UNCHANGED <<instVars, resVars, cfg, app, build, stages, releases,
                   gpuPending, gpuDone, mem, nextHandle, swapchain>>

\* One call of draw_frame by the window's event loop, the presentation
\* engine handing the images out in rotation.
DrawFrame(acq, pres) == RotatesImages(acq) /\ draw_frame(acq, pres)

\* recreate_swapchain (main.rs 776-870) and the rest of the draw_frame that
\* called it: a return (703) or the advance of current_frame (773).
RecreateSwapchain ==
    /\ pc = "recreate_swapchain"
    /\ device_wait_idle_returns
    /\ LET new == SwapchainObjects(nextHandle)
       IN  /\ calls' = calls \o recreate_swapchain(swapchain.objects, new)
           /\ swapchain' = [swapchain EXCEPT !.objects = new]
    /\ nextHandle' = nextHandle + SwapchainHandles
    /\ base' = IF frame.value.returns THEN base
               ELSE [base EXCEPT !.current_frame = next_current_frame(@)]
    /\ frame' = None
    /\ pc' = "main_loop"
    /\ UNCHANGED <<instVars, resVars, cfg, app, build, stages, releases,
                   gpuPending, gpuDone, mem, fences, inFlight, drawn>>

\* resize_framebuffer (main.rs 907-909), called between two frames.
ResizeFramebuffer ==
    /\ pc = "main_loop"
    /\ base' = [base EXCEPT !.is_framebuffer_resized = TRUE]
    /\ UNCHANGED <<instVars, resVars, appVars, devVars, fences, inFlight,
                   frame, drawn, swapchain>>

signal_fence_lost(fs, f) == fs

\* The fence handed to queue_submit (main.rs 730-742) is signaled when the
\* submitted work completes.
signal_fence(fs, f) == [fs EXCEPT ![f] = TRUE]

\* The device finishes the oldest submitted frame and signals the fence
\* given to its queue_submit.
FrameComplete ==
    /\ inFlight # {}
    /\ pc # "aborted"
    /\ LET fr == CHOOSE f \in inFlight : \A g \in inFlight : f.id <= g.id
       IN  /\ inFlight' = inFlight \ {fr}
           /\ fences' = signal_fence(fences, fr.fence)
    /\ UNCHANGED <<instVars, resVars, appVars, devVars, base, frame, drawn,
                   swapchain>>

NextFrame ==
    \/ \E acq \in AcquireResults, pres \in PresentResults : DrawFrame(acq, pres)
    \/ RecreateSwapchain
    \/ ResizeFramebuffer
    \/ FrameComplete

SpecFrame == InitFrame /\ [][NextFrame]_vars

\* C14: in every state reached by interleaving draw_frame with the device's
\* frame completions, at most MAX_FRAMES_IN_FLIGHT frames submitted by
\* draw_frame have not signaled their fence and no two of them share a
\* fence, current_frame is one of 0 .. MAX_FRAMES_IN_FLIGHT - 1, and every
\* queue_submit is preceded in the same draw_frame by a wait on the fence it
\* passes, in_flight_fences[current_frame].
C14_FramesInFlight ==
    LET submits == {i \in 1..Len(calls) : calls[i].op = "queue_submit"}
        waits   == {i \in 1..Len(calls) : calls[i].op = "wait_for_fences"}
    IN  /\ Cardinality(inFlight) <= MAX_FRAMES_IN_FLIGHT
        /\ \A f, g \in inFlight : f.fence = g.fence => f = g
        /\ base.current_frame \in 0..(MAX_FRAMES_IN_FLIGHT - 1)
        /\ \A s \in submits :
              \E w \in waits :
                 /\ w < s
                 /\ calls[w].h = calls[s].a.fence
                 /\ \A k \in (w + 1)..(s - 1) :
                       calls[k].op \notin {"queue_submit", "wait_for_fences"}

\* C14 witness: a third frame was submitted after the first one completed,
\* and two frames are in flight.
C14_Witness ==
    /\ drawn = 3
    /\ Cardinality(inFlight) = MAX_FRAMES_IN_FLIGHT
    /\ pc = "main_loop"

\* Whether the answer logged by call c (an acquire_next_image or a
\* queue_present) reports the swapchain out of date or suboptimal.
ReportsStale(c) ==
    LET r == c.a.result
    IN  IF r.kind = "err"
        THEN r.code \in {"ERROR_OUT_OF_DATE_KHR", "SUBOPTIMAL_KHR"}
        ELSE IF c.op = "acquire_next_image" THEN r.value.is_sub_optimal
        ELSE r.value

\* C15: whenever acquire_next_image or queue_present reports out-of-date or
\* suboptimal, the draw_frame that made the call does not abort on it and has
\* run recreate_swapchain by the time it returns; every other error of the
\* two calls aborts the process at that call.
C15_PresentationRecovery ==
    LET asks == {i \in 1..Len(calls) :
                    calls[i].op \in {"acquire_next_image", "queue_present"}}
        last(i) == \A j \in asks : j <= i
        returned(i) ==
            \/ \E j \in (i + 1)..Len(calls) : calls[j].op = "wait_for_fences"
            \/ pc = "main_loop"
        rebuilt(i) ==
            \E k \in (i + 1)..Len(calls) :
               /\ calls[k].op = "create_swapchain"
               /\ \A j \in (i + 1)..k : calls[j].op # "wait_for_fences"
    IN  \A i \in asks :
           IF ReportsStale(calls[i])
           THEN /\ ~(pc = "aborted" /\ last(i))
                /\ returned(i) => rebuilt(i)
           ELSE calls[i].a.result.kind = "err" => pc = "aborted" /\ last(i)

(***************************************************************************)
(* Device failures while create_acceleration_structures runs.  Every       *)
(* fallible call there is unwrapped (or matched with a panic, main.rs      *)
(* 1486-1492), so an Err panics at the call.  SpecFail is Spec with a      *)
(* device whose calls may fail.  Whether the panic unwinds, dropping the   *)
(* locals and then app, or aborts at once is the build profile's choice.   *)
(***************************************************************************)
\* The calls made when call k of cs fails: those before it and the failed
\* call itself.
CallsUntilFailure_ignored(cs, k) ==
    SubSeq(cs, 1, k - 1) \o << Failed(cs[k].op) >> \o SubSeq(cs, k + 1, Len(cs))

CallsUntilFailure(cs, k) == SubSeq(cs, 1, k - 1) \o << Failed(cs[k].op) >>

RECURSIVE Reverse(_)
Reverse(s) == IF s = <<>> THEN <<>> ELSE Append(Reverse(Tail(s)), Head(s))

\* The locals that exist when call k fails, in the order unwinding drops
\* them (reverse declaration order).
LiveLocals(locals, k) ==
    LET exists(l) == l.at < k
        live == SelectSeq(locals, exists)
    IN  Reverse([i \in 1..Len(live) |-> live[i].res])

\* The device calls of unwinding out of create_acceleration_structures and
\* main: the live locals, then app.
Unwind(live, a) == DropAll(live) \o DropAll(AppDropOrder(a))

\* Call op on handle h is among the first k - 1 calls of cs.
Succeeded(cs, k, op, h) ==
    \E i \in 1..(k - 1) : cs[i].op = op /\ cs[i].h = h

\* The largest handle among n and the handles named by cs.
HighestHandle(cs, n) ==
    LET hs == {n} \cup {cs[i].h : i \in 1..Len(cs)}
    IN  CHOOSE m \in hs : \A x \in hs : x <= m

\* The fields of app a once the first k - 1 calls of build b have returned.
AppUntilFailure(a, b, k) ==
    [a EXCEPT
       !.bottom_as =
           IF Succeeded(b.calls, k, "create_acceleration_structure", b.bottom.as)
           THEN b.bottom.as ELSE @,
       !.bottom_as_memory =
           IF Succeeded(b.calls, k, "allocate_memory", b.bottom.memory)
           THEN b.bottom.memory ELSE @,
       !.top_as =
           IF Succeeded(b.calls, k, "create_acceleration_structure", b.top.as)
           THEN b.top.as ELSE @,
       !.top_as_memory =
           IF Succeeded(b.calls, k, "allocate_memory", b.top.memory)
           THEN b.top.memory ELSE @]

\* A call of create_acceleration_structures up to queue_submit fails.
BuildFails ==
    /\ AtStage("create_acceleration_structures")
    /\ \E bottom_as_handle \in 1..MaxAccelHandle,
          bottom_as_size \in 1..MaxScratch, top_as_size \in 1..MaxScratch,
          unwinds \in BOOLEAN :
        \E b \in {create_acceleration_structures(nextHandle, bottom_as_handle,
                                                 bottom_as_size, top_as_size)} :
        \E k \in {i \in 1..Len(b.calls) : b.calls[i].op \in FallibleOps} :
        \E a \in {AppUntilFailure(app, b, k)} :
        \E drops \in {IF unwinds THEN Unwind(LiveLocals(b.locals, k), a) ELSE <<>>} :
            LET early(w) == w.at < k
            IN  /\ calls' = calls \o CallsUntilFailure(b.calls, k) \o drops
                /\ mem' = MemFree(MemWriteAll(mem, SelectSeq(b.writes, early)),
                                  FreedBy(drops))
                /\ app' = a
                /\ nextHandle' = HighestHandle(SubSeq(b.calls, 1, k - 1), nextHandle)
    /\ build' = None
    /\ stages' = Append(stages, "create_acceleration_structures")
    /\ pc' = "aborted"
    /\ UNCHANGED <<instVars, frameVars, resVars, cfg, releases, gpuPending, gpuDone>>

\* queue_wait_idle returns an error (main.rs 1486-1492).
WaitFails ==
    /\ pc = "queue_wait_idle"
    /\ \E unwinds \in BOOLEAN :
        LET drops == IF unwinds
                     THEN Unwind(BuildLocalsDropOrder(build), app) ELSE <<>>
        IN  /\ calls' = calls \o << Failed("queue_wait_idle") >> \o drops
            /\ mem' = MemFree(mem, FreedBy(drops))
    /\ build' = None
    /\ pc' = "aborted"
    /\ UNCHANGED <<instVars, frameVars, resVars, cfg, app, stages, releases,
                   gpuPending, gpuDone, nextHandle>>

NextFail == Next \/ BuildFails \/ WaitFails

SpecFail == Init /\ [][NextFail]_vars

\* The calls a Drop makes while a panic unwinds.
UnwindOps ==
    {"destroy_buffer", "free_memory", "destroy_image_view", "destroy_image",
     "destroy_sampler"}

\* C16: when a device call of the acceleration-structure construction
\* (creation, allocation, bind, handle query, command-buffer allocate, begin
\* or end, queue submit, queue-wait-idle) fails, the process aborts at that
\* call: the only calls after the failed one are the destroys of unwinding,
\* there is no second failure, no later initialization stage is entered or
\* leaves anything in app, no build local is kept, and a failure before
\* queue_submit leaves nothing submitted to the device.
C16_BuildFailureAborts ==
    LET failed == {i \in 1..Len(calls) : calls[i].op = "failed"}
    IN  /\ \A i \in failed :
              /\ calls[i].a.op \in FallibleOps
              /\ pc = "aborted"
              /\ \A j \in (i + 1)..Len(calls) : calls[j].op \in UnwindOps
              /\ stages = SubSeq(initialize, 1, 2)
              /\ build = None
              /\ app.pipeline = NullHandle
              /\ app.descriptor_set = NullHandle
              /\ app.shader_binding_table = None
              /\ app.color0_buffer = None
              /\ calls[i].a.op # "queue_wait_idle" =>
                    gpuPending = <<>> /\ gpuDone = <<>>
        /\ (pc = "aborted" /\ Len(stages) = 2) => failed # {}

\* C16 witness: the bind of the top-level structure's memory failed, after
\* the bottom-level structure and three buffers were made, and unwinding
\* has destroyed the buffers.
C16_Witness ==
    /\ pc = "aborted"
    /\ \E i \in 1..Len(calls) :
          /\ calls[i].op = "failed"
          /\ calls[i].a.op = "bind_acceleration_structure_memory"
          /\ app.top_as # NullHandle
          /\ i < Len(calls)

\* The acceleration structures the log has seen created.
AccelStructures == {calls[i].h : i \in CallsOf("create_acceleration_structure")}

\* The positions of the calls of op on handle h.
CallsOn(op, h) == {i \in CallsOf(op) : calls[i].h = h}

\* The positions where the memory of structure x was bound.
BoundAt(x) == CallsOn("bind_acceleration_structure_memory", x)

\* The device has executed the build whose destination is x.
BuildExecuted(x) ==
    \E i \in 1..Len(gpuDone) :
       gpuDone[i].op = "cmd_build_acceleration_structure" /\ gpuDone[i].a.dst = x

\* The positions of the update_descriptor_sets calls with a write that
\* names structure x.
WrittenAt(x) ==
    {i \in CallsOf("update_descriptor_sets") :
        \E w \in 1..Len(calls[i].a.writes) :
           /\ calls[i].a.writes[w].descriptor_type = "ACCELERATION_STRUCTURE_NV"
           /\ \E e \in 1..Len(calls[i].a.writes[w].acceleration_structures) :
                 calls[i].a.writes[w].acceleration_structures[e] = x}

\* C17: for each acceleration structure the log shows creation, the query
\* of its object memory requirements, the allocation of its memory and the
\* bind in that order; its build is recorded, submitted and executed only
\* after the bind, and the bottom-level handle is queried only after the
\* bind; a descriptor write names it only once the device has executed its
\* build; it is destroyed only after a device-idle wait with nothing left
\* to execute, after its build and after every descriptor write naming it.
C17_AccelLifecycle ==
    LET submits == CallsOf("queue_submit")
        idles   == CallsOf("device_wait_idle")
    IN  \A x \in AccelStructures :
        LET created == CallsOn("create_acceleration_structure", x)
            queried == {i \in CallsOn("get_acceleration_structure_memory_requirements", x) :
                           calls[i].a.ty = "OBJECT"}
            bound   == BoundAt(x)
            builds  == {i \in CallsOf("cmd_build_acceleration_structure") :
                           calls[i].a.dst = x}
            handles == CallsOn("get_acceleration_structure_handle", x)
            destroyed == CallsOn("destroy_acceleration_structure", x)
        IN  /\ Cardinality(created) = 1
            /\ \A q \in queried : \E c \in created : c < q
            /\ \A b \in bound :
                  \E q \in queried, m \in CallsOn("allocate_memory", calls[b].a.memory) :
                     q < m /\ m < b
            /\ \A r \in builds \cup handles : \E b \in bound : b < r
            /\ BuildExecuted(x) =>
                  \E r \in builds, s \in submits : r < s
            /\ \A u \in WrittenAt(x) :
                  /\ BuildExecuted(x)
                  /\ \E r \in builds : r < u
            /\ \A d \in destroyed :
                  /\ gpuPending = <<>>
                  /\ BuildExecuted(x)
                  /\ \E w \in idles :
                        w < d /\ \A s \in submits : s < w
                  /\ \A u \in WrittenAt(x) : u < d

\* C17 witness: both structures were built, the top-level one was written
\* into the descriptor set, and both have been destroyed by release.
C17_Witness ==
    /\ app.top_as # NullHandle /\ app.bottom_as # NullHandle
    /\ WrittenAt(app.top_as) # {}
    /\ CallsOn("destroy_acceleration_structure", app.top_as) # {}
    /\ CallsOn("destroy_acceleration_structure", app.bottom_as) # {}

\* The build-scratch requirement the device reported for the structure of
\* level ty, as a set (empty before the query).
ScratchRequirement(ty) ==
    {calls[i].a.result :
        i \in {j \in CallsOf("get_acceleration_structure_memory_requirements") :
                  /\ calls[j].a.ty = "BUILD_SCRATCH"
                  /\ \E c \in CallsOn("create_acceleration_structure", calls[j].h) :
                        calls[c].a.ty = ty}}

\* The buffers the recorded build commands name as scratch.
ScratchBuffers == {calls[i].a.scratch : i \in CallsOf("cmd_build_acceleration_structure")}

\* The device-local ray-tracing buffers created so far.
DeviceLocalRayTracingBuffers ==
    {calls[i].h :
        i \in {j \in CallsOf("create_buffer") :
                  /\ calls[j].a.usage = "RAY_TRACING_NV"
                  /\ \E b \in CallsOn("bind_buffer_memory", calls[j].h) :
                     \E m \in CallsOn("allocate_memory", calls[b].a.memory) :
                        calls[m].a.flags = {"DEVICE_LOCAL"}}}

\* C18: once the builds are recorded, exactly one device-local ray-tracing
\* buffer has been created and it is the scratch buffer of both build
\* commands, each at scratch offset 0; its size is the larger of the
\* bottom-level and the top-level build-scratch requirement, so at least
\* each of them; and in the order the device executes the commands an
\* acceleration-structure barrier lies between any two builds that use it.
C18_OneScratchBuffer ==
    BuildRecorded /\ CallsOf("cmd_build_acceleration_structure") # {} =>
    LET builds == CallsOf("cmd_build_acceleration_structure")
        done   == {i \in 1..Len(gpuDone) :
                      gpuDone[i].op = "cmd_build_acceleration_structure"}
    IN  /\ Cardinality(builds) = 2
        /\ Cardinality(ScratchBuffers) = 1
        /\ DeviceLocalRayTracingBuffers = ScratchBuffers
        /\ \A i \in builds : calls[i].a.scratch_offset = 0
        /\ \A s \in ScratchBuffers :
           \A c \in CallsOn("create_buffer", s) :
           \A bs \in ScratchRequirement("BOTTOM_LEVEL") :
           \A ts \in ScratchRequirement("TOP_LEVEL") :
              /\ calls[c].a.size >= bs
              /\ calls[c].a.size >= ts
              /\ calls[c].a.size \in {bs, ts}
        /\ ScratchRequirement("BOTTOM_LEVEL") # {}
        /\ ScratchRequirement("TOP_LEVEL") # {}
        /\ \A i, j \in builds :
              (i < j /\ calls[i].a.scratch = calls[j].a.scratch) =>
                 \E k \in (i + 1)..(j - 1) : IsBuildBarrier(calls[k])
        /\ \A i, j \in done :
              (i < j /\ gpuDone[i].a.scratch = gpuDone[j].a.scratch) =>
                 \E k \in (i + 1)..(j - 1) : IsBuildBarrier(gpuDone[k])

\* C18 witness: the two requirements differ, the top-level one being the
\* larger, and the device has executed both builds.
C18_Witness ==
    /\ \E bs \in ScratchRequirement("BOTTOM_LEVEL"),
          ts \in ScratchRequirement("TOP_LEVEL") : bs < ts
    /\ Cardinality({i \in 1..Len(gpuDone) :
                       gpuDone[i].op = "cmd_build_acceleration_structure"}) = 2

\* C19: the descriptor-set layout is created with exactly three bindings,
\* numbered 0, 1 and 2: binding 0 one acceleration-structure descriptor
\* visible to ray generation, binding 1 one storage-image descriptor
\* visible to ray generation, binding 2 a uniform-buffer array of count 3
\* visible to closest hit, and binding 2 alone carries the
\* variable-descriptor-count flag.
C19_LayoutBindings ==
    \A i \in CallsOf("create_descriptor_set_layout") :
       LET b == calls[i].a.bindings
           f == calls[i].a.binding_flags
       IN  /\ Len(b) = 3
           /\ \A k \in 1..3 : b[k].binding = k - 1
           /\ b[1].descriptor_type = "ACCELERATION_STRUCTURE_NV"
           /\ b[1].descriptor_count = 1 /\ b[1].stage_flags = "RAYGEN_NV"
           /\ b[2].descriptor_type = "STORAGE_IMAGE"
           /\ b[2].descriptor_count = 1 /\ b[2].stage_flags = "RAYGEN_NV"
           /\ b[3].descriptor_type = "UNIFORM_BUFFER"
           /\ b[3].descriptor_count = 3 /\ b[3].stage_flags = "CLOSEST_HIT_NV"
           /\ calls[i].a.binding_flags_count = 3
           /\ \A k \in 1..3 : "VARIABLE_DESCRIPTOR_COUNT" \in f[k] <=> k = 3

\* C20: create_descriptor_set creates a pool for 1 acceleration-structure,
\* 1 storage-image and 3 uniform-buffer descriptors with max_sets 1,
\* requests exactly one descriptor set from that pool with the ray-tracing
\* descriptor-set layout, gets one set back and stores it as the app's
\* descriptor set.
C20_OneDescriptorSet ==
    /\ \A i \in CallsOf("create_descriptor_pool") :
          /\ calls[i].a.max_sets = 1
          /\ Len(calls[i].a.pool_sizes) = 3
          /\ \E k \in 1..3 : calls[i].a.pool_sizes[k] =
                [ty |-> "ACCELERATION_STRUCTURE_NV", descriptor_count |-> 1]
          /\ \E k \in 1..3 : calls[i].a.pool_sizes[k] =
                [ty |-> "STORAGE_IMAGE", descriptor_count |-> 1]
          /\ \E k \in 1..3 : calls[i].a.pool_sizes[k] =
                [ty |-> "UNIFORM_BUFFER", descriptor_count |-> 3]
    /\ \A i \in CallsOf("allocate_descriptor_sets") :
          /\ calls[i].h = app.descriptor_pool
          /\ calls[i].a.set_layouts = << app.descriptor_set_layout >>
          /\ calls[i].a.descriptor_set_count = 1
          /\ Len(calls[i].a.result) = 1
          /\ app.descriptor_set = calls[i].a.result[1]

\* C21: the descriptor set is populated by three writes in one
\* update_descriptor_sets call: binding 0 gets the top-level structure
\* (count 1), binding 1 the offscreen image view in GENERAL layout, binding 2
\* the three colour buffers in order; and each write targets a binding the
\* descriptor-set layout declares with the same descriptor type and at least
\* as many descriptors.
C21_DescriptorWrites ==
    LET updates == CallsOf("update_descriptor_sets")
        layouts == CallsOf("create_descriptor_set_layout")
    IN  /\ Cardinality(updates) <= 1
        /\ \A u \in updates :
           LET w == calls[u].a.writes
           IN  /\ Len(w) = 3
               /\ w[1].dst_binding = 0
               /\ w[1].descriptor_type = "ACCELERATION_STRUCTURE_NV"
               /\ w[1].descriptor_count = 1
               /\ w[2].dst_binding = 1
               /\ w[2].descriptor_type = "STORAGE_IMAGE"
               /\ w[3].dst_binding = 2
               /\ w[3].descriptor_type = "UNIFORM_BUFFER"
               /\ w[3].descriptor_count = 3
               /\ releases = 0 =>
                     /\ \A k \in 1..3 : w[k].dst_set = app.descriptor_set
                     /\ w[1].acceleration_structures = << app.top_as >>
                     /\ w[2].image_info =
                           << [image_layout |-> "GENERAL",
                               image_view |-> app.offscreen_target.view] >>
                     /\ w[3].buffer_info =
                           << [buffer |-> app.color0_buffer.buffer],
                              [buffer |-> app.color1_buffer.buffer],
                              [buffer |-> app.color2_buffer.buffer] >>
               /\ \A k \in 1..3 : \A l \in layouts :
                     \E b \in 1..Len(calls[l].a.bindings) :
                        /\ calls[l].a.bindings[b].binding = w[k].dst_binding
                        /\ calls[l].a.bindings[b].descriptor_type = w[k].descriptor_type
                        /\ calls[l].a.bindings[b].descriptor_count >= w[k].descriptor_count

\* C22: every ray-tracing pipeline is created, under each build-time
\* configuration, with exactly three shader groups: group 0 general with
\* general shader 0, group 1 a triangles hit group with closest-hit shader
\* 1, group 2 general with general shader 2, every other role unused; and
\* stage 0 of the stage list is the ray-generation stage, stage 1 the
\* closest-hit stage, stage 2 the miss stage.
C22_ShaderGroups ==
    \A p \in CallsOf("create_ray_tracing_pipelines") :
       LET g  == calls[p].a.groups
           st == calls[p].a.stages
           unused(k, roles) == \A r \in roles : g[k][r] = SHADER_UNUSED_NV
       IN  /\ Len(g) = 3
           /\ Len(st) = 3
           /\ g[1].ty = "GENERAL" /\ g[1].general_shader = 0
           /\ unused(1, {"closest_hit_shader", "any_hit_shader", "intersection_shader"})
           /\ g[2].ty = "TRIANGLES_HIT_GROUP" /\ g[2].closest_hit_shader = 1
           /\ unused(2, {"general_shader", "any_hit_shader", "intersection_shader"})
           /\ g[3].ty = "GENERAL" /\ g[3].general_shader = 2
           /\ unused(3, {"closest_hit_shader", "any_hit_shader", "intersection_shader"})
           /\ st[g[1].general_shader + 1].stage = "RAYGEN_NV"
           /\ st[g[2].closest_hit_shader + 1].stage = "CLOSEST_HIT_NV"
           /\ st[g[3].general_shader + 1].stage = "MISS_NV"

\* C22 witness: the pipeline was created from the combined library.
C22_Witness ==
    /\ UseLibrary(cfg)
    /\ CallsOf("create_ray_tracing_pipelines") # {}
    /\ app.pipeline # NullHandle

\* C23: the entry-point names of the pipeline's stages follow the build-time
\* configuration: with the combined library every stage uses the entry
\* point "main"; with separate per-stage files the three stages use three
\* distinct names.
C23_EntryPointNames ==
    \A p \in CallsOf("create_ray_tracing_pipelines") :
       LET st == calls[p].a.stages
       IN  IF UseLibrary(cfg)
           THEN \A k \in 1..Len(st) : st[k].name = "main"
           ELSE \A k, l \in 1..Len(st) : k # l => st[k].name # st[l].name

\* C26: every stage passed to ray-tracing pipeline creation names a shader
\* module that an earlier create_shader_module call of the log created,
\* never the null module: with the combined library the library module,
\* with separate files the ray-generation, closest-hit and miss modules in
\* that order.
C26_StageModules ==
    \A p \in CallsOf("create_ray_tracing_pipelines") :
       LET st == calls[p].a.stages
           created == {calls[i].h : i \in {j \in CallsOf("create_shader_module") : j < p}}
       IN  /\ \A k \in 1..Len(st) :
                 st[k].module # NullHandle /\ st[k].module \in created
           /\ releases = 0 /\ app.pipeline # NullHandle =>
                 IF UseLibrary(cfg)
                 THEN \A k \in 1..Len(st) : st[k].module = app.lib_shader_module
                 ELSE /\ st[1].module = app.rgen_shader_module
                      /\ st[2].module = app.chit_shader_module
                      /\ st[3].module = app.miss_shader_module

\* C24: in every draw_frame the acquire precedes the submission and the
\* submission precedes the presentation; the submission waits on the
\* image-available semaphore passed to that frame's acquire and signals
\* another semaphore, the render-finished one, on which that frame's
\* presentation waits; the image presented is the image acquired.
C24_AcquireSubmitPresent ==
    LET acquires == CallsOf("acquire_next_image")
        submits  == CallsOf("queue_submit")
        presents == CallsOf("queue_present")
        waits    == CallsOf("wait_for_fences")
        sameFrame(i, j) == \A w \in waits : ~(i < w /\ w < j)
    IN  /\ \A s \in submits :
              \E a \in acquires :
                 /\ a < s /\ sameFrame(a, s)
                 /\ calls[a].a.result.kind = "ok"
                 /\ calls[s].a.wait_semaphore = calls[a].a.semaphore
                 /\ calls[s].a.signal_semaphore # calls[s].a.wait_semaphore
        /\ \A p \in presents :
              \E s \in submits, a \in acquires :
                 /\ a < s /\ s < p /\ sameFrame(a, p)
                 /\ calls[p].a.wait_semaphore = calls[s].a.signal_semaphore
                 /\ calls[p].a.image_index = calls[a].a.result.value.image_index
        /\ \A a \in acquires :
              calls[a].a.result.kind = "ok" =>
                 \E s \in submits, p \in presents :
                    a < s /\ s < p /\ sameFrame(a, p)

\* C24 witness: two frames have been acquired, submitted and presented.
C24_Witness ==
    /\ pc = "main_loop"
    /\ Cardinality(CallsOf("queue_present")) = 2

\* C29: a draw_frame that starts with is_framebuffer_resized set and does
\* not abort goes through recreate_swapchain before it returns, and
\* recreate_swapchain creates a new swapchain; is_framebuffer_resized is
\* false when a draw_frame that reached the presentation returns.
C29_ResizeHonoured ==
    [][ LET presented == /\ Len(calls') > Len(calls)
                         /\ calls'[Len(calls')].op = "queue_present"
        IN
        /\ (drawn' = drawn + 1 /\ base.is_framebuffer_resized /\ pc' # "aborted")
              => pc' = "recreate_swapchain"
        /\ (pc = "recreate_swapchain" /\ pc' # pc)
              => /\ pc' = "main_loop"
                 /\ \E i \in (Len(calls) + 1)..Len(calls') :
                       calls'[i].op = "create_swapchain"
        /\ (drawn' = drawn + 1 /\ presented /\ pc' # "aborted")
              => ~base'.is_framebuffer_resized
        /\ (pc = "recreate_swapchain" /\ pc' = "main_loop"
               /\ ~frame.value.returns)
              => ~base'.is_framebuffer_resized
      ]_vars

\* C29 witness: a presentation that succeeded was followed by
\* recreate_swapchain, which only a resize request brings about, and the
\* flag is false after that draw_frame.
C29_Witness ==
    /\ pc = "main_loop"
    /\ ~base.is_framebuffer_resized
    /\ \E p \in CallsOf("queue_present") :
          /\ calls[p].a.result.kind = "ok"
          /\ p < Len(calls)
          /\ calls[p + 1].op = "device_wait_idle"

\* The frame loop when create_sync_objects made every fence signaled and
\* the device completes the work submitted to it.
InitFrameSignaled ==
    /\ InitFrame
    /\ \A f \in 0..(MAX_FRAMES_IN_FLIGHT - 1) : fences[f]

SpecFrameLive == InitFrameSignaled /\ [][NextFrame]_vars /\ WF_vars(FrameComplete)

\* C28: a fence of in_flight_fences is unsignaled only while a submission
\* that signals it is outstanding; every reset_fences follows a successful
\* acquire of the same draw_frame and is followed at once by the
\* queue_submit that takes the fence; during the early return after an
\* out-of-date acquire the fence of current_frame is signaled and
\* current_frame stays as it is; and so, the fences starting signaled and
\* submitted work completing, a fence that is unsignaled becomes signaled
\* (unless the program has aborted), hence every later wait_for_fences
\* returns.
C28_FenceProgress ==
    /\ [](\A f \in 0..(MAX_FRAMES_IN_FLIGHT - 1) :
             ~fences[f] => \E s \in inFlight : s.fence = f)
    /\ [](\A r \in CallsOf("reset_fences") :
             /\ r > 1 /\ r < Len(calls)
             /\ calls[r - 1].op = "unmap_memory"
             /\ \E a \in CallsOf("acquire_next_image") :
                   /\ a < r /\ calls[a].a.result.kind = "ok"
                   /\ \A w \in CallsOf("wait_for_fences") : ~(a < w /\ w < r)
             /\ calls[r + 1].op = "queue_submit"
             /\ calls[r + 1].a.fence = calls[r].h)
    /\ []((pc = "recreate_swapchain" /\ frame.value.returns)
             => fences[base.current_frame])
    /\ [][(pc = "recreate_swapchain" /\ frame.value.returns)
             => base'.current_frame = base.current_frame]_vars
    /\ \A f \in 0..(MAX_FRAMES_IN_FLIGHT - 1) :
          (~fences[f]) ~> (fences[f] \/ pc = "aborted")

\* C28 witness: after an early return on an out-of-date acquire, a later
\* draw_frame has submitted and the next one waits on a fence that the
\* device has yet to signal.
C28_Witness ==
    /\ pc = "main_loop"
    /\ ~fences[base.current_frame]
    /\ \E s \in inFlight : s.fence = base.current_frame
    /\ \E a \in CallsOf("acquire_next_image"), q \in CallsOf("queue_submit") :
          /\ a < q
          /\ calls[a].a.result.kind = "err"

\* The frame loop when acquire_next_image may answer with any image the
\* application does not hold; between two calls of draw_frame it holds
\* none, every image it acquired having been handed to queue_present.
DrawFrameAnyImage(acq, pres) == draw_frame(acq, pres)

NextImages ==
    \/ \E acq \in AcquireResults, pres \in PresentResults :
          DrawFrameAnyImage(acq, pres)
    \/ RecreateSwapchain
    \/ ResizeFramebuffer
    \/ FrameComplete

SpecImages == InitFrame /\ [][NextImages]_vars

\* C30: no two submissions whose fence is still to be signaled use the same
\* swapchain image, that is, draw_frame writes the uniform buffer of an
\* image and submits its command buffer only when no earlier submission
\* for that image is outstanding.
C30_ImageNotInUse ==
    \A f, g \in inFlight : f.image = g.image => f = g

(***************************************************************************)
(* The frame loop entered with the ray-tracing application initialized.   *)
(***************************************************************************)
\* How many frames the loop draws once the application is initialized.
MaxResizeFrames == 1

\* VulkanRenderer::new has returned and RayTracingApp::new has been called
\* with the configuration create_pipeline fixes (main.rs 1722-1723).
InitResize ==
    /\ InstIdle /\ ResIdle
    /\ pc = "initialize"
    /\ cfg = [use_lib |-> FALSE, use_hlsl |-> TRUE]
    /\ \E hs \in HandleSizes : app = RayTracingApp_new(hs)
    /\ build = None
    /\ stages = <<>> /\ releases = 0
    /\ gpuPending = <<>> /\ gpuDone = <<>>
    /\ mem = <<>> /\ calls = <<>>
    /\ nextHandle = SyncHandles + SwapchainHandles
    /\ base = VulkanRenderer_new(ReferenceDevice, ReferenceMemoryTypes)
    /\ fences = [i \in 0..(MAX_FRAMES_IN_FLIGHT - 1) |-> TRUE]
    /\ inFlight = {}
    /\ frame = None
    /\ drawn = 0
    /\ swapchain = [sync |-> SyncObjects(0), objects |-> SwapchainObjects(SyncHandles)]

\* The window's event loop starts after app.initialize() (main.rs 2121,
\* 2148) with the application still alive.
EnterMainLoop ==
    /\ pc = "initialized"
    /\ gpuPending = <<>>
    /\ pc' = "main_loop"
    /\ UNCHANGED <<instVars, resVars, frameVars, cfg, app, build, stages,
                   releases, gpuPending, gpuDone, devVars>>

DrawFrameInitialized(acq, pres) ==
    /\ drawn < MaxResizeFrames
    /\ DrawFrame(acq, pres)

NextResize ==
    \/ CreateOffscreenTarget
    \/ BuildAndSubmit
    \/ GpuExecute
    \/ WaitAndFree
    \/ CreateBindlessUniformBuffers
    \/ CreatePipeline
    \/ CreateShaderBindingTable
    \/ CreateDescriptorSet
    \/ EnterMainLoop
    \/ \E acq \in AcquireResults, pres \in PresentResults :
          DrawFrameInitialized(acq, pres)
    \/ RecreateSwapchain
    \/ ResizeFramebuffer
    \/ FrameComplete

SpecResize == InitResize /\ [][NextResize]_vars

\* C25: no call made by recreate_swapchain names an acceleration structure
\* or its memory, the ray-tracing pipeline or its layout, the shader binding
\* table's buffer or memory, or the ray-tracing descriptor set, pool or
\* layout; recreate_swapchain makes no call that builds such an object; and
\* while it runs the application's fields and the device memory stay as
\* they are.
C25_RecreateKeepsRayTracing ==
    /\ [](LET sbt == app.shader_binding_table
              rt == ({app.top_as, app.top_as_memory, app.bottom_as,
                      app.bottom_as_memory, app.pipeline, app.pipeline_layout,
                      app.descriptor_set, app.descriptor_pool,
                      app.descriptor_set_layout}
                     \cup (IF sbt # None
                           THEN {sbt.buffer, sbt.memory} ELSE {}))
                    \ {NullHandle}
              rebuilds == {"create_acceleration_structure",
                           "bind_acceleration_structure_memory",
                           "cmd_build_acceleration_structure",
                           "create_ray_tracing_pipelines",
                           "create_pipeline_layout",
                           "get_ray_tracing_shader_group_handles",
                           "create_descriptor_set_layout",
                           "create_descriptor_pool",
                           "allocate_descriptor_sets",
                           "update_descriptor_sets",
                           "allocate_memory", "create_buffer"}
              idles == CallsOf("device_wait_idle")
              waits == CallsOf("wait_for_fences")
              inRecreate(i) ==
                  \E d \in idles :
                     d <= i /\ \A w \in waits : ~(d < w /\ w <= i)
          IN  \A i \in 1..Len(calls) :
                 inRecreate(i) =>
                    /\ calls[i].h \notin rt
                    /\ calls[i].op \notin rebuilds)
    /\ [][pc = "recreate_swapchain" => (app' = app /\ mem' = mem)]_vars

\* C25 witness: recreate_swapchain has replaced the swapchain while the
\* application holds its acceleration structures, pipeline, shader binding
\* table and descriptor pool.
C25_Witness ==
    /\ pc = "main_loop"
    /\ CallsOf("create_swapchain") # {}
    /\ app.top_as # NullHandle /\ app.bottom_as # NullHandle
    /\ app.pipeline # NullHandle /\ app.pipeline_layout # NullHandle
    /\ app.descriptor_pool # NullHandle
    /\ app.shader_binding_table # None
    /\ swapchain.objects # SwapchainObjects(SyncHandles)

(***************************************************************************)
(* The shared ownership of the renderer: main's Rc<VulkanRenderer>         *)
(* (main.rs 2108), the clone every BufferResource and ImageResource keeps  *)
(* in its base field (main.rs 78, 187) and the one RayTracingApp keeps     *)
(* (main.rs 918).  VulkanRenderer::drop runs when the last is dropped.     *)
(***************************************************************************)
MaxRcNew    == 2    \* resources constructed while the owners are followed
MaxRcClones == 1    \* clone calls while the owners are followed

\* The objects VulkanRenderer::new creates once and VulkanRenderer::drop
\* destroys (main.rs 630-680), with handles h+1 ...
RendererObjects(h) ==
    [descriptor_pool      |-> h + 1,
     index_buffer         |-> h + 2,
     index_buffer_memory  |-> h + 3,
     vertex_buffer        |-> h + 4,
     vertex_buffer_memory |-> h + 5,
     texture_sampler      |-> h + 6,
     texture_image_view   |-> h + 7,
     texture_image        |-> h + 8,
     texture_image_memory |-> h + 9,
     ubo_layout           |-> h + 10,
     command_pool         |-> h + 11,
     uniform_buffers      |-> [i \in 1..ImageCount |-> h + 11 + i]]

RendererHandles == 11 + ImageCount

\* VALIDATION.is_enable (utility/constants.rs 18-21).
VALIDATION_is_enable == TRUE

\* Drop for VulkanRenderer (main.rs 630-680).
VulkanRenderer_drop(r) ==
    LET perFrame(i) ==
            << Call("destroy_semaphore", r.sync.image_available_semaphores[i], NoArgs),
               Call("destroy_semaphore", r.sync.render_finished_semaphores[i], NoArgs),
               Call("destroy_fence", r.sync.in_flight_fences[i], NoArgs) >>
        perImage(i) ==
            << Call("destroy_buffer", r.fixed.uniform_buffers[i], NoArgs),
               Call("free_memory", r.sync.uniform_buffers_memory[i], NoArgs) >>
        RECURSIVE Each(_, _, _)
        Each(f(_), i, n) == IF i > n THEN <<>> ELSE f(i) \o Each(f, i + 1, n)
    IN  Each(perFrame, 1, MAX_FRAMES_IN_FLIGHT)
        \o cleanup_swapchain(r.objects)
        \o << Call("destroy_descriptor_pool", r.fixed.descriptor_pool, NoArgs) >>
        \o Each(perImage, 1, ImageCount)
        \o << Call("destroy_buffer", r.fixed.index_buffer, NoArgs),
              Call("free_memory", r.fixed.index_buffer_memory, NoArgs),
              Call("destroy_buffer", r.fixed.vertex_buffer, NoArgs),
              Call("free_memory", r.fixed.vertex_buffer_memory, NoArgs),
              Call("destroy_sampler", r.fixed.texture_sampler, NoArgs),
              Call("destroy_image_view", r.fixed.texture_image_view, NoArgs),
              Call("destroy_image", r.fixed.texture_image, NoArgs),
              Call("free_memory", r.fixed.texture_image_memory, NoArgs),
              Call("destroy_descriptor_set_layout", r.fixed.ubo_layout, NoArgs),
              Call("destroy_command_pool", r.fixed.command_pool, NoArgs),
              Call("destroy_device", NullHandle, NoArgs),
              Call("destroy_surface", NullHandle, NoArgs) >>
        \o (IF VALIDATION_is_enable
            THEN << Call("destroy_debug_utils_messenger", NullHandle, NoArgs) >>
            ELSE <<>>)
        \o << Call("destroy_instance", NullHandle, NoArgs) >>

NoApp == [none |-> TRUE]

strong_count_of_main(main_holds, os, a) == IF main_holds THEN 1 ELSE 0

\* Rc::strong_count of the renderer: main's local, one per live resource
\* value, and for a live RayTracingApp its base field and the base field of
\* its offscreen_target.
strong_count(main_holds, os, a) ==
    (IF main_holds THEN 1 ELSE 0) + Len(os) + (IF a = NoApp THEN 0 ELSE 2)

\* What dropping one Rc adds to the log: Drop for VulkanRenderer when no
\* other holder is left.
LastHolderDrops(main_holds, os, a) ==
    IF strong_count(main_holds, os, a) = 0
    THEN VulkanRenderer_drop(swapchain) ELSE <<>>

\* main is running and holds its Rc; every value that keeps a clone of it
\* is constructed by main or by a call made from main (main.rs 2108-2146).
MainHoldsRc == pc = "off"

InitRc ==
    /\ InstIdle /\ ResIdle /\ AppIdle
    /\ mem = <<>> /\ calls = <<>>
    /\ nextHandle = SyncHandles + SwapchainHandles + RendererHandles
    /\ base = VulkanRenderer_new(ReferenceDevice, ReferenceMemoryTypes)
    /\ fences = [i \in 0..(MAX_FRAMES_IN_FLIGHT - 1) |-> TRUE]
    /\ inFlight = {}
    /\ frame = None
    /\ drawn = 0
    /\ swapchain = [sync    |-> SyncObjects(0),
                    objects |-> SwapchainObjects(SyncHandles),
                    fixed   |-> RendererObjects(SyncHandles + SwapchainHandles)]

RcNewBuffer == MainHoldsRc /\ made.new < MaxRcNew /\ ResNewBuffer

RcNewImage == MainHoldsRc /\ made.new < MaxRcNew /\ ResNewImage

RcCreateImage(i) == MainHoldsRc /\ ResCreateImage(i)

RcClone(i) == MainHoldsRc /\ made.clone < MaxRcClones /\ ResClone(i)

\* RayTracingApp::new (main.rs 2119) takes a clone of the Rc and constructs
\* the ImageResource of its offscreen_target (main.rs 941-969).
RcNewApp ==
    /\ MainHoldsRc
    /\ app = NoApp
    /\ made.new < MaxRcNew
    /\ made' = [made EXCEPT !.new = @ + 1]
    /\ \E hs \in HandleSizes : app' = RayTracingApp_new(hs)
    /\ UNCHANGED <<instVars, frameVars, owners, lastDrop, request, pc, cfg,
                   build, stages, releases, gpuPending, gpuDone, devVars>>

\* Drop::drop of owners[i] (main.rs 171-180, 262-269), then the drop of its
\* base field.
RcDrop(i) ==
    /\ lastDrop' = Resource_drop(owners[i])
    /\ owners' = RemoveAt(owners, i)
    /\ calls' = calls \o lastDrop'
                \o LastHolderDrops(MainHoldsRc, owners', app)
    /\ mem' = MemFree(mem, FreedBy(lastDrop'))
    /\ UNCHANGED <<instVars, frameVars, request, made, appVars, nextHandle>>

\* The RayTracingApp goes out of scope (main.rs 2147).
RcDropApp ==
    /\ app # NoApp
    /\ app' = NoApp
    /\ LET cs == DropAll(AppDropOrder(app))
       IN  /\ calls' = calls \o cs \o LastHolderDrops(MainHoldsRc, owners, NoApp)
           /\ mem' = MemFree(mem, FreedBy(cs))
    /\ UNCHANGED <<instVars, frameVars, resVars, pc, cfg, build, stages,
                   releases, gpuPending, gpuDone, nextHandle>>

\* main returns (main.rs 2149): its Rc is dropped.
RcMainReturns ==
    /\ pc = "off"
    /\ pc' = "main_returned"
    /\ calls' = calls \o LastHolderDrops(FALSE, owners, app)
    /\ UNCHANGED <<instVars, frameVars, resVars, cfg, app, build, stages,
                   releases, gpuPending, gpuDone, mem, nextHandle>>

NextRc ==
    \/ RcNewBuffer
    \/ RcNewImage
    \/ \E i \in 1..Len(owners) : RcCreateImage(i)
    \/ \E i \in 1..Len(owners) : RcClone(i)
    \/ \E i \in 1..Len(owners) : RcDrop(i)
    \/ RcNewApp
    \/ RcDropApp
    \/ RcMainReturns

SpecRc == InitRc /\ [][NextRc]_vars

\* C27: destroy_device is called at most once, and only when main's Rc,
\* every BufferResource and ImageResource and the RayTracingApp have been
\* dropped; after it no device call is made, only the calls on the surface,
\* the debug messenger and the instance that end VulkanRenderer::drop.
C27_DeviceOutlivesOwners ==
    LET destroyed == CallsOf("destroy_device")
    IN  /\ Cardinality(destroyed) <= 1
        /\ \A d \in destroyed :
              /\ owners = <<>> /\ app = NoApp /\ pc = "main_returned"
              /\ \A i \in (d + 1)..Len(calls) :
                    calls[i].op \in {"destroy_surface",
                                     "destroy_debug_utils_messenger",
                                     "destroy_instance"}

\* C27 witness: main returned while a cloned resource was alive, and the
\* device was destroyed by the drop of the last resource.
C27_Witness ==
    /\ CallsOf("destroy_device") # {}
    /\ made.clone >= 1
    /\ \E s \in CallsOf("destroy_semaphore") :
          /\ s > 1
          /\ calls[s - 1].op \in {"free_memory", "destroy_sampler"}

====
